---- MODULE Spec2Model ----
(***************************************************************************)
(* A model of etc/generate_pybind11.py (and of the member-function         *)
(* strategy of its predecessor python/generate_pybind11.py): the generator *)
(* that turns doxygen xml into pybind11 binding statements.                *)
(*                                                                         *)
(* Python strings are modelled as sequences of one-character strings, so   *)
(* that startswith / endswith / find / re.sub are computed, not assumed.   *)
(***************************************************************************)
EXTENDS Integers, Sequences, FiniteSets, TLC

VARIABLES
    files,             \* docs/xml: filename -> parsed xml document
    things,            \* args.things, the entity names given to main
    yml,               \* args.files of python/generate_pybind11.py, parsed
    pc,                \* where main is
    idx,               \* number of entries of args.things main has processed
    DOXY_DICT,         \* __DOXY_DICT: thing -> fn_dict
    ABSTRACT_CLASSES,  \* __ABSTRACT_CLASSES (its keys)
    cache,             \* the functools.cache tables that are not transparent
    opens,             \* history: the open() calls, [fname, by] each
    builds,            \* history: thing -> number of times get_xml built fn_dict
    out,               \* what main printed to stdout
    err,               \* what was written to stderr
    type_,             \* argument of a call of translate_cpp_to_py
    py,                \* results of translate_cpp_to_py: <<once, twice>>
    trees,             \* the documentation trees convert_to_rst is given
    context_default,   \* the list that is the default of context
    rst,               \* the texts convert_to_rst returned, in call order
    called             \* the latest call of a function of the script by itself

vars == <<files, things, yml, pc, idx, DOXY_DICT, ABSTRACT_CLASSES, cache,
          opens, builds, out, err, type_, py, trees,
          context_default, rst, called>>

\* the command line and the directory, which no step changes
input == <<files, things, yml>>

\* the module-level dictionaries and caches, with their history
interp == <<DOXY_DICT, ABSTRACT_CLASSES, cache, opens, builds>>

\* the calls of convert_to_rst
rendering == <<trees, context_default, rst>>

\* the calls of single functions of the script
call == <<type_, py, rendering, called>>

-----------------------------------------------------------------------------
(* Python str operations on sequences of characters *)

UpperChars ==
    {"A","B","C","D","E","F","G","H","I","J","K","L","M",
     "N","O","P","Q","R","S","T","U","V","W","X","Y","Z"}

LowerChars ==
    {"a","b","c","d","e","f","g","h","i","j","k","l","m",
     "n","o","p","q","r","s","t","u","v","w","x","y","z"}

DigitChars == {"0","1","2","3","4","5","6","7","8","9"}

\* \w of the re module (ASCII part)
WordChars == UpperChars \cup LowerChars \cup DigitChars \cup {"_"}

\* what str.strip() and \s remove
SpaceChars == {" ", "\n", "\t"}

\* str.lower() on one character
LowerOf(c) ==
    CASE c = "A" -> "a" [] c = "B" -> "b" [] c = "C" -> "c" [] c = "D" -> "d"
      [] c = "E" -> "e" [] c = "F" -> "f" [] c = "G" -> "g" [] c = "H" -> "h"
      [] c = "I" -> "i" [] c = "J" -> "j" [] c = "K" -> "k" [] c = "L" -> "l"
      [] c = "M" -> "m" [] c = "N" -> "n" [] c = "O" -> "o" [] c = "P" -> "p"
      [] c = "Q" -> "q" [] c = "R" -> "r" [] c = "S" -> "s" [] c = "T" -> "t"
      [] c = "U" -> "u" [] c = "V" -> "v" [] c = "W" -> "w" [] c = "X" -> "x"
      [] c = "Y" -> "y" [] c = "Z" -> "z" [] OTHER -> c

\* s[i:] with a 0-based i, as Python slices
From(s, i) == SubSeq(s, i + 1, Len(s))

\* s.startswith(p) looked at from the 1-based position i
MatchAt(s, i, p) ==
    /\ i + Len(p) - 1 <= Len(s)
    /\ \A k \in 1..Len(p) : s[i + k - 1] = p[k]

StartsWith(s, p) == MatchAt(s, 1, p)

EndsWith(s, p) == Len(p) <= Len(s) /\ MatchAt(s, Len(s) - Len(p) + 1, p)

\* p in s
Contains(s, p) == \E i \in 1..(Len(s) + 1) : MatchAt(s, i, p)

\* s.find(p): 0-based position of the first occurrence, -1 if there is none
Find(s, p) ==
    IF Contains(s, p)
    THEN (CHOOSE i \in 1..(Len(s) + 1) :
              MatchAt(s, i, p) /\ \A j \in 1..(i - 1) : ~MatchAt(s, j, p)) - 1
    ELSE -1

\* s.rfind(p)
RFind(s, p) ==
    IF Contains(s, p)
    THEN (CHOOSE i \in 1..(Len(s) + 1) :
              MatchAt(s, i, p)
              /\ \A j \in (i + 1)..(Len(s) + 1) : ~MatchAt(s, j, p)) - 1
    ELSE -1

RECURSIVE LStrip(_)
LStrip(s) ==
    IF s # <<>> /\ Head(s) \in SpaceChars THEN LStrip(Tail(s)) ELSE s

RECURSIVE RStrip(_)
RStrip(s) ==
    IF s # <<>> /\ s[Len(s)] \in SpaceChars
    THEN RStrip(SubSeq(s, 1, Len(s) - 1))
    ELSE s

\* s.strip()
Strip(s) == RStrip(LStrip(s))

\* sep.join(list)
RECURSIVE Join(_, _)
Join(sep, list) ==
    IF list = <<>> THEN <<>>
    ELSE IF Len(list) = 1 THEN list[1]
    ELSE list[1] \o sep \o Join(sep, Tail(list))

\* re.sub(p, r, s) for a literal pattern p: leftmost non-overlapping matches
RECURSIVE ReplaceAll(_, _, _, _)
ReplaceAll(s, i, p, r) ==
    IF i > Len(s) THEN <<>>
    ELSE IF MatchAt(s, i, p) THEN r \o ReplaceAll(s, i + Len(p), p, r)
    ELSE <<s[i]>> \o ReplaceAll(s, i + 1, p, r)

-----------------------------------------------------------------------------
(* translate_cpp_to_py *)

\* \b before position i (1-based) of s: exactly one side is a word character
WordBoundary(s, i) ==
    LET before == i > 1 /\ s[i - 1] \in WordChars
        after  == i <= Len(s) /\ s[i] \in WordChars
    IN  before # after

\* re.sub(r"\bconst\b", "", s)
RECURSIVE SubConst(_, _)
SubConst(s, i) ==
    IF i > Len(s) THEN <<>>
    ELSE IF /\ MatchAt(s, i, <<"c","o","n","s","t">>)
            /\ WordBoundary(s, i)
            /\ WordBoundary(s, i + Len(<<"c","o","n","s","t">>))
         THEN SubConst(s, i + Len(<<"c","o","n","s","t">>))
         ELSE <<s[i]>> \o SubConst(s, i + 1)

\* re.sub(r"\&", "", s)
SubAmp(s) == SelectSeq(s, LAMBDA c : c # "&")

\* the end of the shortest match of <.*?> that starts at the "<" at i, 0 if
\* there is none ("." does not match a newline)
AngleEnd(s, i) ==
    LET ends == {j \in (i + 1)..Len(s) :
                    /\ s[j] = ">"
                    /\ \A k \in (i + 1)..(j - 1) : s[k] # "\n"}
    IN  IF ends = {} THEN 0
        ELSE CHOOSE j \in ends : \A k \in ends : j <= k

\* re.sub(r"<.*?>", "", s)
RECURSIVE SubAngles(_, _)
SubAngles(s, i) ==
    IF i > Len(s) THEN <<>>
    ELSE IF s[i] = "<" /\ AngleEnd(s, i) # 0
         THEN SubAngles(s, AngleEnd(s, i) + 1)
         ELSE <<s[i]>> \o SubAngles(s, i + 1)

\* a translate_cpp_to_py that removes <...> before it compares with
\* std::vector<uint8_t>
translate_stripped_angles_first(t0) ==
    LET t == Strip(SubAngles(t0, 1))
    IN  CASE t = <<"s","t","d",":",":","v","e","c","t","o","r","<","u","i","n","t","8","_","t",">">> -> <<"l","i","s","t","[","i","n","t","]">>
          [] t = <<"s","t","d",":",":","o","u","t","_","o","f","_","r","a","n","g","e">> -> <<"I","n","d","e","x","E","r","r","o","r">>
          [] t = <<"s","t","d",":",":","b","a","d","_","a","l","l","o","c">> -> <<"M","e","m","o","r","y","E","r","r","o","r">>
          [] t = <<"s","t","d",":",":","l","e","n","g","t","h","_","e","r","r","o","r">> -> <<"V","a","l","u","e","E","r","r","o","r">>
          [] t = <<"L","i","b","s","e","m","i","g","r","o","u","p","s","E","x","c","e","p","t","i","o","n">> -> <<"L","i","b","s","e","m","i","g","r","o","u","p","s","E","r","r","o","r">>
          [] t \in {<<"s","i","z","e","_","t">>, <<"u","i","n","t","3","2","_","t">>, <<"s","i","z","e","_","t","y","p","e">>, <<"u","i","n","t","6","4","_","t">>} -> <<"i","n","t">>
          [] t \in {<<"t","h","i","s">>, <<"*","t","h","i","s">>} -> <<"s","e","l","f">>
          [] t = <<"t","r","u","e">> -> <<"T","r","u","e">>
          [] t = <<"f","a","l","s","e">> -> <<"F","a","l","s","e">>
          [] t = <<"v","o","i","d">> -> <<"N","o","n","e">>
          [] t = <<"s","t","d",":",":","v","e","c","t","o","r">> -> <<"l","i","s","t">>
          [] OTHER -> IF Contains(t, <<"i","t","e","r","a","t","o","r">>) THEN <<"I","t","e","r","a","t","o","r">> ELSE t

\* the lines of translate_cpp_to_py after the two first substitutions
translate_stripped(t0) ==
    IF t0 = <<"s","t","d",":",":","v","e","c","t","o","r","<","u","i","n","t","8","_","t",">">> THEN <<"l","i","s","t","[","i","n","t","]">>
    ELSE
      LET t == Strip(SubAngles(t0, 1))
      IN  CASE t = <<"s","t","d",":",":","o","u","t","_","o","f","_","r","a","n","g","e">> -> <<"I","n","d","e","x","E","r","r","o","r">>
            [] t = <<"s","t","d",":",":","b","a","d","_","a","l","l","o","c">> -> <<"M","e","m","o","r","y","E","r","r","o","r">>
            [] t = <<"s","t","d",":",":","l","e","n","g","t","h","_","e","r","r","o","r">> -> <<"V","a","l","u","e","E","r","r","o","r">>
            [] t = <<"L","i","b","s","e","m","i","g","r","o","u","p","s","E","x","c","e","p","t","i","o","n">> -> <<"L","i","b","s","e","m","i","g","r","o","u","p","s","E","r","r","o","r">>
            [] t \in {<<"s","i","z","e","_","t">>, <<"u","i","n","t","3","2","_","t">>, <<"s","i","z","e","_","t","y","p","e">>, <<"u","i","n","t","6","4","_","t">>} -> <<"i","n","t">>
            [] t \in {<<"t","h","i","s">>, <<"*","t","h","i","s">>} -> <<"s","e","l","f">>
            [] t = <<"t","r","u","e">> -> <<"T","r","u","e">>
            [] t = <<"f","a","l","s","e">> -> <<"F","a","l","s","e">>
            [] t = <<"v","o","i","d">> -> <<"N","o","n","e">>
            [] t = <<"s","t","d",":",":","v","e","c","t","o","r">> -> <<"l","i","s","t">>
            [] OTHER -> IF Contains(t, <<"i","t","e","r","a","t","o","r">>) THEN <<"I","t","e","r","a","t","o","r">> ELSE t

\* the names translate_cpp_to_py knows
KnownNames ==
    {<<"s","t","d",":",":","o","u","t","_","o","f","_","r","a","n","g","e">>, <<"s","t","d",":",":","b","a","d","_","a","l","l","o","c">>, <<"s","t","d",":",":","l","e","n","g","t","h","_","e","r","r","o","r">>, <<"L","i","b","s","e","m","i","g","r","o","u","p","s","E","x","c","e","p","t","i","o","n">>,
     <<"s","i","z","e","_","t">>, <<"u","i","n","t","3","2","_","t">>, <<"s","i","z","e","_","t","y","p","e">>, <<"u","i","n","t","6","4","_","t">>, <<"t","h","i","s">>, <<"*","t","h","i","s">>,
     <<"t","r","u","e">>, <<"f","a","l","s","e">>, <<"v","o","i","d">>}

\* a translate_cpp_to_py that looks its argument up among the known names as
\* it is given, and removes const, & and <...> only from the other arguments
translate_table_first(t) ==
    IF Strip(t) \in KnownNames THEN translate_stripped(t)
    ELSE LET g == Strip(SubAngles(SubAmp(SubConst(t, 1)), 1))
         IN  IF g = <<"s","t","d",":",":","v","e","c","t","o","r">> THEN <<"l","i","s","t">>
             ELSE IF Contains(g, <<"i","t","e","r","a","t","o","r">>) THEN <<"I","t","e","r","a","t","o","r">> ELSE g

translate_cpp_to_py(t) == translate_stripped(SubAmp(SubConst(t, 1)))

-----------------------------------------------------------------------------
(* Calls of translate_cpp_to_py on type expressions *)

\* the lexemes type expressions are written with
Lexemes ==
    {<<"c","o","n","s","t">>, <<" ">>, <<"&">>, <<"<">>, <<">">>, <<"s","i","z","e","_","t">>, <<"s","t","d",":",":","v","e","c","t","o","r">>,
     <<"u","i","n","t","8","_","t">>, <<"i","t","e","r","a","t","o","r">>, <<"*","t","h","i","s">>}

\* number of lexemes of a type expression
MaxLexemes == 4

RECURSIVE Flatten(_)
Flatten(ls) == IF ls = <<>> THEN <<>> ELSE Head(ls) \o Flatten(Tail(ls))

TypeExprs ==
    {Flatten(ls) : ls \in UNION {[1..n -> Lexemes] : n \in 0..MaxLexemes}}

InitTranslate ==
    /\ type_ \in TypeExprs
    /\ py = <<>>
    /\ pc = "translate"
    /\ files = <<>> /\ things = <<>> /\ yml = <<>> /\ idx = 0
    /\ DOXY_DICT = <<>> /\ ABSTRACT_CLASSES = {} /\ cache = <<>>
    /\ opens = <<>> /\ builds = <<>> /\ out = <<>> /\ err = <<>>
    /\ trees = <<>> /\ context_default = <<>> /\ rst = <<>>
    /\ called = <<>>

\* py = translate_cpp_to_py(type_)
Translate ==
    /\ pc = "translate"
    /\ py' = <<translate_cpp_to_py(type_)>>
    /\ pc' = "translate_again"
    /\ UNCHANGED <<type_, input, interp, idx, out, err, rendering, called>>

\* py = translate_cpp_to_py(py)
TranslateAgain ==
    /\ pc = "translate_again"
    /\ py' = Append(py, translate_cpp_to_py(py[1]))
    /\ pc' = "translated"
    /\ UNCHANGED <<type_, input, interp, idx, out, err, rendering, called>>

NextTranslate == Translate \/ TranslateAgain

SpecTranslate == InitTranslate /\ [][NextTranslate]_vars

\* C5: translating the result of translate_cpp_to_py again gives the same
\* result
TranslateIdempotent == pc = "translated" => py[2] = py[1]

\* a type expression from which const and the reference mark were removed,
\* whose name was translated, and the result translated again
TranslateIdempotentWitness ==
    /\ pc = "translated"
    /\ type_ = <<"c","o","n","s","t"," ","s","i","z","e","_","t","&">>
    /\ py = <<<<"i","n","t">>, <<"i","n","t">>>>

-----------------------------------------------------------------------------
(* The doxygen xml that the script reads *)

\* <param><type>ty</type><declname>nm</declname></param>
Param(ty, nm) == [type |-> ty, declname |-> <<nm>>]

\* <param><type>ty</type></param>
ParamNoName(ty) == [type |-> ty, declname |-> <<>>]

\* a <memberdef kind= prot= static= const=> element with its <name>, <type>,
\* <argsstring>, <templateparamlist>, <param> and <enumvalue> children, and
\* the <parametername> elements of its <detaileddescription>, which name
\* every parameter
Member(nm, kind, prot, static, const, ty, args, tparams, params, values) ==
    [name |-> nm, kind |-> kind, prot |-> prot, static |-> static,
     const |-> const, type |-> ty, argsstring |-> args,
     templateparamlist |-> tparams, param |-> params, enumvalue |-> values,
     parametername |->
         [i \in 1..Len(params) |->
             IF params[i].declname = <<>> THEN <<>> ELSE params[i].declname[1]]]

\* the value of an attribute that the element does not have
NoAttr == "(none)"

Fn(nm, prot, static, const, ty, args, tparams, params) ==
    Member(nm, "function", prot, static, const, ty, args, tparams, params,
           <<>>)

\* the scopes that can be asked for
T_Foo == <<"F","o","o">>
T_ls_Bar == <<"l","i","b","s","e","m","i","g","r","o","u","p","s",":",":","B","_","r">>
Things == {T_Foo, T_ls_Bar}

M_bar_int ==
    Fn(<<"b","a","r">>, "public", "no", "no", <<"v","o","i","d">>, <<"(","i","n","t"," ","x",")">>, <<>>,
       <<Param(<<"i","n","t">>, <<"x">>)>>)
M_bar_str ==
    Fn(<<"b","a","r">>, "public", "no", "yes", <<"s","i","z","e","_","t">>, <<"(","s","t","d",":",":","s","t","r","i","n","g"," ","c","o","n","s","t"," ","&","s",")"," ","c","o","n","s","t">>,
       <<>>, <<Param(<<"s","t","d",":",":","s","t","r","i","n","g"," ","c","o","n","s","t"," ","&">>, <<"s">>)>>)
M_bar_int_const ==
    Fn(<<"b","a","r">>, "public", "no", "yes", <<"v","o","i","d">>, <<"(","i","n","t"," ","x",")"," ","c","o","n","s","t">>, <<>>,
       <<Param(<<"i","n","t">>, <<"x">>)>>)
M_bar_private ==
    Fn(<<"b","a","r">>, "private", "no", "no", <<"v","o","i","d">>, <<"(","b","o","o","l"," ","b",")">>, <<>>,
       <<Param(<<"b","o","o","l">>, <<"b">>)>>)
M_bar_deleted ==
    Fn(<<"b","a","r">>, "public", "no", "no", <<"v","o","i","d">>, <<"(","c","h","a","r"," ","c",")","=","d","e","l","e","t","e">>, <<>>,
       <<Param(<<"c","h","a","r">>, <<"c">>)>>)
M_tem_template ==
    Fn(<<"t","e","m">>, "public", "no", "no", <<"v","o","i","d">>, <<"(","T"," ","c","o","n","s","t"," ","&","t",")">>,
       <<ParamNoName(<<"t","y","p","e","n","a","m","e"," ","T">>)>>, <<Param(<<"T"," ","c","o","n","s","t"," ","&">>, <<"t">>)>>)
M_Foo ==
    Fn(<<"F","o","o">>, "public", "no", "no", <<>>, <<"(",")">>, <<>>, <<>>)
M_Foo_copy ==
    Fn(<<"F","o","o">>, "public", "no", "no", <<>>, <<"(","F","o","o"," ","c","o","n","s","t"," ","&","t","h","a","t",")">>, <<>>,
       <<Param(<<"F","o","o"," ","c","o","n","s","t"," ","&">>, <<"t","h","a","t">>)>>)
M_enum_bar ==
    Member(<<"b","a","r">>, "enum", "public", "no", "no", <<>>, <<>>, <<>>, <<>>,
           <<<<"o","n","e">>>>)
M_typedef ==
    Member(<<"v","a","l","u","e","_","t","y","p","e">>, "typedef", "public", "no", "no", <<"s","i","z","e","_","t">>, <<>>,
           <<>>, <<>>, <<>>)
M_begin ==
    Fn(<<"b","e","g","i","n">>, "public", "no", "yes", <<"c","o","n","s","t","_","i","t","e","r","a","t","o","r">>, <<"(",")"," ","c","o","n","s","t">>, <<>>,
       <<>>)
M_end ==
    Fn(<<"e","n","d">>, "public", "no", "yes", <<"c","o","n","s","t","_","i","t","e","r","a","t","o","r">>, <<"(",")"," ","c","o","n","s","t">>, <<>>,
       <<>>)
M_cbegin_x ==
    Fn(<<"c","b","e","g","i","n","_","x">>, "public", "no", "yes", <<"c","o","n","s","t","_","i","t","e","r","a","t","o","r">>,
       <<"(","s","i","z","e","_","t"," ","i",")"," ","c","o","n","s","t">>, <<>>, <<Param(<<"s","i","z","e","_","t">>, <<"i">>)>>)
M_cend_x ==
    Fn(<<"c","e","n","d","_","x">>, "public", "no", "yes", <<"c","o","n","s","t","_","i","t","e","r","a","t","o","r">>,
       <<"(","s","i","z","e","_","t"," ","i",")"," ","c","o","n","s","t">>, <<>>, <<Param(<<"s","i","z","e","_","t">>, <<"i">>)>>)
M_operator_eq ==
    Fn(<<"o","p","e","r","a","t","o","r","=","=">>, "public", "no", "yes", <<"b","o","o","l">>,
       <<"(","F","o","o"," ","c","o","n","s","t"," ","&","t","h","a","t",")"," ","c","o","n","s","t">>, <<>>, <<Param(<<"F","o","o"," ","c","o","n","s","t"," ","&">>, <<"t","h","a","t">>)>>)
M_operator_assign ==
    Fn(<<"o","p","e","r","a","t","o","r","=">>, "public", "no", "no", <<"F","o","o"," ","&">>, <<"(","F","o","o"," ","c","o","n","s","t"," ","&","t","h","a","t",")">>,
       <<>>, <<Param(<<"F","o","o"," ","c","o","n","s","t"," ","&">>, <<"t","h","a","t">>)>>)
M_at ==
    Fn(<<"a","t">>, "public", "no", "yes", <<"s","i","z","e","_","t">>, <<"(","s","i","z","e","_","t"," ","i",")"," ","c","o","n","s","t">>, <<>>,
       <<Param(<<"s","i","z","e","_","t">>, <<"i">>)>>)
M_make_static ==
    Fn(<<"m","a","k","e">>, "public", "yes", "no", <<"F","o","o">>, <<"(","i","n","t"," ","n",")">>, <<>>,
       <<Param(<<"i","n","t">>, <<"n">>)>>)
M_make_static_str ==
    Fn(<<"m","a","k","e">>, "public", "yes", "no", <<"F","o","o">>, <<"(","s","t","d",":",":","s","t","r","i","n","g"," ","c","o","n","s","t"," ","&","s",")">>, <<>>,
       <<Param(<<"s","t","d",":",":","s","t","r","i","n","g"," ","c","o","n","s","t"," ","&">>, <<"s">>)>>)
M_run_for ==
    Fn(<<"r","u","n","_","f","o","r">>, "public", "no", "no", <<"v","o","i","d">>,
       <<"(","s","t","d",":",":","c","h","r","o","n","o",":",":","n","a","n","o","s","e","c","o","n","d","s"," ","t",")">>, <<>>,
       <<Param(<<"s","t","d",":",":","c","h","r","o","n","o",":",":","n","a","n","o","s","e","c","o","n","d","s">>, <<"t">>)>>)
M_bar_init_list ==
    Fn(<<"b","a","r">>, "public", "no", "no", <<"v","o","i","d">>,
       <<"(","s","t","d",":",":","i","n","i","t","i","a","l","i","z","e","r","_","l","i","s","t","<"," ","i","n","t"," ",">"," ","l",")">>, <<>>,
       <<Param(<<"s","t","d",":",":","i","n","i","t","i","a","l","i","z","e","r","_","l","i","s","t","<"," ","i","n","t"," ",">">>, <<"l">>)>>)
M_bar_long ==
    Fn(<<"b","a","r">>, "public", "no", "no", <<"v","o","i","d">>, <<"(","l","o","n","g",")">>, <<>>,
       <<ParamNoName(<<"l","o","n","g">>)>>)
M_bar_no_static ==
    Fn(<<"b","a","r">>, "public", NoAttr, "no", <<"v","o","i","d">>, <<"(","s","h","o","r","t"," ","h",")">>, <<>>,
       <<Param(<<"s","h","o","r","t">>, <<"h">>)>>)
M_enum_Foo_kind ==
    Member(<<"F","o","o","_","k","i","n","d">>, "enum", "public", "no", "no", <<>>, <<>>, <<>>, <<>>,
           <<<<"o","n","e">>, <<"t","w","o">>>>)
M_typedef_Foo_type ==
    Member(<<"F","o","o","_","t","y","p","e">>, "typedef", "public", "no", "no", <<"F","o","o">>, <<>>, <<>>,
           <<>>, <<>>)
M_get_N ==
    Fn(<<"g","e","t">>, "public", "no", "yes", <<"s","i","z","e","_","t">>, <<"(","s","i","z","e","_","t"," ","i",")"," ","c","o","n","s","t">>,
       <<Param(<<"s","i","z","e","_","t">>, <<"N">>)>>, <<Param(<<"s","i","z","e","_","t">>, <<"i">>)>>)
M_begin_private ==
    Fn(<<"b","e","g","i","n">>, "private", "no", "no", <<"i","t","e","r","a","t","o","r">>, <<"(",")">>, <<>>, <<>>)

\* the members a class or struct file is made of
MemberPool ==
    {M_bar_int, M_bar_str, M_bar_int_const, M_bar_private, M_bar_deleted,
     M_bar_init_list, M_tem_template, M_Foo, M_Foo_copy, M_enum_bar,
     M_typedef, M_begin, M_begin_private, M_end, M_cbegin_x, M_cend_x,
     M_operator_eq, M_operator_assign, M_at, M_make_static, M_run_for,
     M_bar_long}

\* the members of which a class or struct file can hold more than two
CorePool ==
    {M_bar_int, M_bar_str, M_bar_int_const, M_bar_private, M_bar_deleted,
     M_Foo, M_enum_bar, M_begin, M_end, M_run_for}

\* the members a namespace file is made of
NamespacePool ==
    {M_bar_int, M_bar_str, M_tem_template, M_enum_bar, M_typedef,
     M_bar_init_list}

\* number of <memberdef> elements in a file
MaxMembers == 2

\* number of entity names on the command line
MaxThings == 2

SeqsUpTo(S, n) == UNION {[1..k -> S] : k \in 0..n}

\* no <memberdef> is in a file twice
DistinctSeqsUpTo(S, n) ==
    {q \in SeqsUpTo(S, n) : \A i, j \in 1..Len(q) : q[i] = q[j] => i = j}

\* no, one or two different elements of S
UpToTwo(S) ==
    {<<>>} \cup {<<a>> : a \in S}
        \cup {<<p[1], p[2]>> : p \in {q \in S \X S : q[1] # q[2]}}

\* files in which the overloads of a name are not declared next to each
\* other
InterleavedMembers ==
    {<<M_bar_int, M_run_for, M_bar_str>>,
     <<M_bar_int, M_bar_str, M_bar_int_const>>,
     <<M_enum_bar, M_Foo, M_bar_str>>}

\* files with an enum and a typedef whose names begin with the name of the
\* class Foo
ScopeNamedMembers ==
    {<<M_enum_Foo_kind>>, <<M_Foo, M_enum_Foo_kind>>,
     <<M_typedef_Foo_type, M_Foo_copy>>,
     <<M_enum_Foo_kind, M_typedef_Foo_type>>}

\* files with a member template whose parameter is not a type: template
\* <size_t N> size_t get(size_t i) const
NonTypeTemplateMembers == {<<M_get_N>>, <<M_bar_int, M_get_N>>}

\* files with two overloads of the static member make
StaticOverloads ==
    {<<M_make_static, M_make_static_str>>,
     <<M_make_static_str, M_bar_int, M_make_static>>}

\* <templateparamlist> of a <compounddef>
ClassTemplateParams == {<<>>, <<Param(<<"t","y","p","e","n","a","m","e">>, <<"T">>)>>}

\* a parsed file: <compounddef abstract=> with its own <templateparamlist>
\* and all <memberdef> elements of the file in document order
ClassDocs ==
    [abstract : {"yes", "no"}, templateparamlist : ClassTemplateParams,
     memberdef : UpToTwo(MemberPool) \cup InterleavedMembers
                     \cup ScopeNamedMembers
                     \cup NonTypeTemplateMembers
                     \cup StaticOverloads
                     \cup DistinctSeqsUpTo(CorePool, MaxMembers)]

NamespaceDocs ==
    [abstract : {"no"}, templateparamlist : {<<>>},
     memberdef : DistinctSeqsUpTo(NamespacePool, MaxMembers)]

\* a file with a <memberdef> that has no static attribute
MalformedDocs ==
    {[abstract |-> "no", templateparamlist |-> <<>>,
      memberdef |-> <<M_bar_int, M_bar_no_static>>],
     [abstract |-> "no", templateparamlist |-> <<>>,
      memberdef |-> <<M_Foo, M_bar_no_static, M_bar_str>>]}

\* the files of the directories where several candidates coexist
SmallDocs ==
    {[abstract |-> "no", templateparamlist |-> <<>>,
      memberdef |-> <<M_bar_int>>],
     [abstract |-> "yes", templateparamlist |-> <<Param(<<"t","y","p","e","n","a","m","e">>, <<"T">>)>>,
      memberdef |-> <<M_Foo, M_begin>>]}

-----------------------------------------------------------------------------
(* doxygen_filename *)

\* p.sub(r"_\1", thing) for p = ([A-Z])
RECURSIVE UnderscoreUpper(_)
UnderscoreUpper(s) ==
    IF s = <<>> THEN <<>>
    ELSE (IF Head(s) \in UpperChars THEN <<"_", Head(s)>> ELSE <<Head(s)>>)
             \o UnderscoreUpper(Tail(s))

\* str.lower()
Lower(s) == [i \in 1..Len(s) |-> LowerOf(s[i])]

\* a mangling that leaves the underscores of thing as they are
Mangle_single_underscore(thing) ==
    Lower(UnderscoreUpper(ReplaceAll(thing, 1, <<":",":">>, <<"_","1","_","1">>)))

\* the part of the file name doxygen_filename computes from thing
Mangle(thing) ==
    Lower(UnderscoreUpper(
        ReplaceAll(ReplaceAll(thing, 1, <<"_">>, <<"_","_">>), 1, <<":",":">>, <<"_","1","_","1">>)))

Candidate(possible, thing) ==
    <<"d","o","c","s","/","x","m","l","/">> \o possible \o Mangle(thing) \o <<".","x","m","l">>

\* the tuple doxygen_filename loops over
ProbeStructFirst == <<<<"s","t","r","u","c","t">>, <<"c","l","a","s","s">>, <<"n","a","m","e","s","p","a","c","e">>>>

Probe == <<<<"c","l","a","s","s">>, <<"s","t","r","u","c","t">>, <<"n","a","m","e","s","p","a","c","e">>>>

\* exists(fname) and isfile(fname)
FileExists(fname) == fname \in DOMAIN files

\* a doxygen_filename that says nothing when it finds no file
doxygen_filename_silent(thing) ==
    LET found == {i \in 1..Len(Probe) : FileExists(Candidate(Probe[i], thing))}
    IN  IF found = {}
        THEN [ret |-> <<>>, err |-> <<>>]
        ELSE [ret |-> Candidate(Probe[CHOOSE i \in found :
                                          \A j \in found : i <= j], thing),
              err |-> <<>>]

\* the body of doxygen_filename: <<result, messages written by __error>>
doxygen_filename_body(thing) ==
    LET found == {i \in 1..Len(Probe) : FileExists(Candidate(Probe[i], thing))}
    IN  IF found = {}
        THEN [ret |-> <<>>, err |-> <<[error |-> "no doxygen file",
                                      thing |-> thing]>>]
        ELSE [ret |-> Candidate(Probe[CHOOSE i \in found :
                                          \A j \in found : i <= j], thing),
              err |-> <<>>]

(* The interpreter state that calls change.  s is a record with the fields
   DOXY_DICT, ABSTRACT_CLASSES, cache, opens, builds and err; a call is an
   operator from s to [s |-> the state after it, ret |-> what it returns]. *)

\* the value an expression has, under a name: Python evaluates the right
\* side of an assignment once.  S is {e : x \in {v}}, e with x naming v.
Only(S) == CHOOSE e \in S : TRUE

Put(f, k, v) == [x \in DOMAIN f \cup {k} |-> IF x = k THEN v ELSE f[x]]

Count(f, k) == IF k \in DOMAIN f THEN f[k] ELSE 0

\* one more open(fname) by the function by
Opened(log, fname, by) == Append(log, [fname |-> fname, by |-> by])

\* @cache of doxygen_filename
doxygen_filename(s, thing) ==
    IF thing \in DOMAIN s.cache.doxygen_filename
    THEN [s |-> s, ret |-> s.cache.doxygen_filename[thing]]
    ELSE Only({[s |-> [s EXCEPT !.cache.doxygen_filename =
                                   Put(@, thing, b.ret),
                               !.err = @ \o b.err],
                ret |-> b.ret] : b \in {doxygen_filename_body(thing)}})

\* is_namespace is cached too, and is a function of doxygen_filename only
is_namespace(s, thing) ==
    Only({[s |-> d.s, ret |-> Contains(d.ret, <<"n","a","m","e","s","p","a","c","e">>)] :
             d \in {doxygen_filename(s, thing)}})

-----------------------------------------------------------------------------
(* get_xml *)

\* [x.find("type").text.strip() for x in list]
StrippedTypes(list) == [i \in 1..Len(list) |-> Strip(list[i].type)]

\* x.find_all("param") of a <memberdef>: the <param> elements of its
\* <templateparamlist> come first in the document
AllParams(x) == x.templateparamlist \o x.param

InSeq(e, list) == \E i \in 1..Len(list) : list[i] = e

\* the key under which get_xml records x
Signature(x) ==
    LET tparam == StrippedTypes(x.templateparamlist)
        param  == StrippedTypes(AllParams(x))
    IN  Join(<<",">>, SelectSeq(param, LAMBDA p : ~InSeq(p, tparam)))

\* positions of the entries of an insertion-ordered dict with key k
KeyIndex(d, k) == {i \in 1..Len(d) : d[i].key = k}

HasKey(d, k) == KeyIndex(d, k) # {}

Get(d, k) == d[CHOOSE i \in KeyIndex(d, k) : TRUE].val

\* d[k] = v on an insertion-ordered dict
Set(d, k, v) ==
    IF HasKey(d, k)
    THEN [i \in 1..Len(d) |-> IF d[i].key = k THEN [key |-> k, val |-> v]
                                               ELSE d[i]]
    ELSE Append(d, [key |-> k, val |-> v])

\* the loop "for x in fn_list" of get_xml
RECURSIVE BuildFnDict(_, _)
BuildFnDict(fn_list, fn_dict) ==
    IF fn_list = <<>> THEN fn_dict
    ELSE LET x  == Head(fn_list)
             nm == x.name
             d1 == IF HasKey(fn_dict, nm) THEN fn_dict
                   ELSE Set(fn_dict, nm, <<>>)
         IN  BuildFnDict(Tail(fn_list),
                         Set(d1, nm, Set(Get(d1, nm), Signature(x), x)))

\* the lines of get_xml under "if thing not in __DOXY_DICT"
get_xml_load(s, thing) ==
    IF thing \in DOMAIN s.DOXY_DICT THEN [s |-> s, raised |-> FALSE]
    ELSE Only({
        IF ~FileExists(d.ret)
        THEN \* open() raises FileNotFoundError
             [s |-> d.s, raised |-> TRUE]
        ELSE [s |-> [d.s EXCEPT
                       !.opens = Opened(@, d.ret, "get_xml"),
                       !.builds = Put(@, thing, Count(@, thing) + 1),
                       !.ABSTRACT_CLASSES =
                           IF files[d.ret].abstract = "yes"
                           THEN @ \cup {thing} ELSE @,
                       !.DOXY_DICT =
                           Put(@, thing,
                               BuildFnDict(files[d.ret].memberdef, <<>>))],
              raised |-> FALSE] : d \in {doxygen_filename(s, thing)}})

\* a get_xml that parses the file on every call
get_xml_reload(s, thing) ==
    get_xml_load([s EXCEPT !.DOXY_DICT =
                     [t \in DOMAIN @ \ {thing} |-> @[t]]], thing)

\* what get_xml does to the interpreter state
get_xml(s, thing) == get_xml_load(s, thing)

\* a get_xml without the lines for the empty params_t
NoOverload_exact_only(D, thing, fn, params_t) ==
    \/ ~HasKey(D[thing], fn)
    \/ ~HasKey(Get(D[thing], fn), params_t)

\* get_xml(thing, fn, params_t) on a loaded thing raises KeyError
NoOverload(D, thing, fn, params_t) ==
    \/ ~HasKey(D[thing], fn)
    \/ /\ ~(params_t = <<>> /\ Len(Get(D[thing], fn)) = 1)
       /\ ~HasKey(Get(D[thing], fn), params_t)

\* get_xml(thing, fn, params_t) on a loaded thing
Overload(D, thing, fn, params_t) ==
    LET overloads == Get(D[thing], fn)
    IN  IF params_t = <<>> /\ Len(overloads) = 1 THEN overloads[1].val
        ELSE Get(overloads, params_t)

-----------------------------------------------------------------------------
(* Classes or structs *)

\* "type declname" of every <param> of the <templateparamlist> of the
\* <compounddef>
TemplateParamTexts(list) ==
    [i \in 1..Len(list) |->
        list[i].type \o (IF list[i].declname # <<>>
                         THEN <<" ">> \o list[i].declname[1] ELSE <<>>)]

\* the body of class_template_params
class_template_params_body(s, thing) ==
    Only({IF ns.ret \/ d.ret = <<>> THEN [s |-> ns.s, ret |-> <<>>]
          ELSE [s |-> [ns.s EXCEPT
                         !.opens = Opened(@, d.ret, "class_template_params")],
                ret |-> TemplateParamTexts(files[d.ret].templateparamlist)] :
             d \in {doxygen_filename(s, thing)},
             ns \in {is_namespace(doxygen_filename(s, thing).s, thing)}})

\* class_template_params without its @cache
class_template_params_uncached(s, thing) ==
    class_template_params_body(s, thing)

\* @cache of class_template_params
class_template_params(s, thing) ==
    IF thing \in DOMAIN s.cache.class_template_params
    THEN [s |-> s, ret |-> s.cache.class_template_params[thing]]
    ELSE Only({[s |-> [r.s EXCEPT !.cache.class_template_params =
                                     Put(@, thing, r.ret)],
                ret |-> r.ret] :
                  r \in {class_template_params_body(s, thing)}})

is_class_template(s, thing) ==
    Only({[s |-> c.s, ret |-> Len(c.ret) # 0] :
             c \in {class_template_params(s, thing)}})

\* an is_abstract_class that is false for every thing
is_abstract_class_never(s, thing) ==
    [s |-> [s EXCEPT !.cache.is_abstract_class = Put(@, thing, FALSE)],
     ret |-> FALSE]

\* @cache of is_abstract_class
is_abstract_class(s, thing) ==
    IF thing \in DOMAIN s.cache.is_abstract_class
    THEN [s |-> s, ret |-> s.cache.is_abstract_class[thing]]
    ELSE LET ret == thing \in s.ABSTRACT_CLASSES
         IN  [s |-> [s EXCEPT !.cache.is_abstract_class =
                                  Put(@, thing, ret)],
              ret |-> ret]

shortname(thing) ==
    IF StartsWith(thing, <<"l","i","b","s","e","m","i","g","r","o","u","p","s",":",":">>)
    THEN From(thing, Len(<<"l","i","b","s","e","m","i","g","r","o","u","p","s",":",":">>))
    ELSE thing

shortname_(s, thing) ==
    shortname(thing) \o (IF is_class_template(s, thing).ret THEN <<"_">> ELSE <<>>)

\* class_n.split("::")[-1]
LastComponent(class_n) ==
    IF Contains(class_n, <<":",":">>) THEN From(class_n, RFind(class_n, <<":",":">>) + 2)
    ELSE class_n

-----------------------------------------------------------------------------
(* Any function: what the script reads from the <memberdef> x that
   get_xml(thing, fn, params_t) returns.  The functions below are cached, and
   are functions of an entry of __DOXY_DICT that no call changes. *)

is_public(s, thing, x) ==
    is_namespace(s, thing).ret \/ x.prot = "public"

is_enum(x) == x.kind = "enum"

is_typedef(x) == x.kind = "typedef"

is_static_mem_fn(s, thing, x) ==
    ~is_namespace(s, thing).ret /\ x.static = "yes"

\* xml["static"] of is_static_mem_fn raises KeyError
is_static_mem_fn_raises(s, thing, x) ==
    ~is_namespace(s, thing).ret /\ x.static = NoAttr

is_const_mem_fn(s, thing, x) ==
    ~is_namespace(s, thing).ret /\ x.const = "yes"

is_deleted_mem_fn(x) == Contains(x.argsstring, <<"=","d","e","l","e","t","e">>)

\* python/generate_pybind11.py
is_mem_fn_template(x) == x.templateparamlist # <<>>

\* xml.find("type").text: the first <type> of the <memberdef> in document
\* order, which is the one of its first template parameter if it has any
return_type(x) ==
    IF x.templateparamlist # <<>> THEN x.templateparamlist[1].type
    ELSE x.type

\* the loop of params_dict: an insertion-ordered dict declname -> type
RECURSIVE ParamsDictLoop(_, _)
ParamsDictLoop(params, result) ==
    IF params = <<>> THEN result
    ELSE LET p == Head(params)
         IN  ParamsDictLoop(
                 Tail(params),
                 IF ~StartsWith(p.type, <<"t","y","p","e","n","a","m","e">>) /\ p.declname # <<>>
                 THEN Set(result, p.declname[1], p.type)
                 ELSE result)

params_dict(x) == ParamsDictLoop(AllParams(x), <<>>)

param_names(x) ==
    LET d == params_dict(x) IN [i \in 1..Len(d) |-> d[i].key]

fn_sig(x) ==
    LET d == params_dict(x) IN [i \in 1..Len(d) |-> d[i].val \o <<" ">> \o d[i].key]

is_overloaded(D, thing, fn) == Len(Get(D[thing], fn)) > 1

is_constructor(class_n, mem_fn) == StartsWith(mem_fn, LastComponent(class_n))

is_operator(mem_fn) ==
    StartsWith(mem_fn, <<"o","p","e","r","a","t","o","r">>) \/ mem_fn \in {<<"a","t">>, <<"h","a","s","h","_","v","a","l","u","e">>}

is_iterator(mem_fn) ==
    StartsWith(mem_fn, <<"c","b","e","g","i","n">>) \/ StartsWith(mem_fn, <<"b","e","g","i","n">>)

translate_cpp_operator_to_py(mem_fn) ==
    CASE mem_fn = <<"o","p","e","r","a","t","o","r","=","=">> -> <<"_","_","e","q","_","_">>
      [] mem_fn = <<"o","p","e","r","a","t","o","r","!","=">> -> <<"_","_","n","e","_","_">>
      [] mem_fn = <<"o","p","e","r","a","t","o","r","<">> -> <<"_","_","l","t","_","_">>
      [] mem_fn = <<"o","p","e","r","a","t","o","r",">">> -> <<"_","_","g","t","_","_">>
      [] mem_fn = <<"o","p","e","r","a","t","o","r","<","=">> -> <<"_","_","l","e","_","_">>
      [] mem_fn = <<"o","p","e","r","a","t","o","r",">","=">> -> <<"_","_","g","e","_","_">>
      [] mem_fn = <<"o","p","e","r","a","t","o","r","+">> -> <<"_","_","a","d","d","_","_">>
      [] mem_fn = <<"o","p","e","r","a","t","o","r","*">> -> <<"_","_","m","u","l","_","_">>
      [] mem_fn = <<"o","p","e","r","a","t","o","r","(",")">> -> <<"_","_","c","a","l","l","_","_">>
      [] mem_fn = <<"o","p","e","r","a","t","o","r","*","=">> -> <<"_","_","i","m","u","l","_","_">>
      [] mem_fn = <<"o","p","e","r","a","t","o","r","+","=">> -> <<"_","_","i","a","d","d","_","_">>
      [] mem_fn = <<"a","t">> -> <<"_","_","g","e","t","i","t","e","m","_","_">>
      [] mem_fn = <<"h","a","s","h","_","v","a","l","u","e">> -> <<"_","_","h","a","s","h","_","_">>
      [] OTHER -> mem_fn

-----------------------------------------------------------------------------
(* convert_to_rst.  A node of a documentation tree is a record: an element
   has a tag, the attributes kind and url (NoAttr for one it has not got)
   and children; a run of text has the tag NoTag and a text.  The grave
   accent of the reStructuredText markup is the character "grave". *)

\* x.name of a run of text is None
NoTag == "#text"

Text(s) ==
    [tag |-> NoTag, kind |-> NoAttr, url |-> NoAttr, text |-> s,
     children |-> <<>>]

Elem(tag, kind, children) ==
    [tag |-> tag, kind |-> kind, url |-> NoAttr, text |-> <<>>,
     children |-> children]

NL == <<"\n">>

\* x.text: the runs of text below x, joined
RECURSIVE TextOf(_)
RECURSIVE TextOfAll(_)
TextOf(x) == IF x.tag = NoTag THEN x.text ELSE TextOfAll(x.children)

TextOfAll(list) ==
    IF list = <<>> THEN <<>> ELSE TextOf(Head(list)) \o TextOfAll(Tail(list))

\* x.find_all(tag): the elements below x with this tag, in document order
RECURSIVE FindAll(_, _)
RECURSIVE FindAllIn(_, _)
FindAll(x, tag) == FindAllIn(x.children, tag)

FindAllIn(list, tag) ==
    IF list = <<>> THEN <<>>
    ELSE (IF Head(list).tag = tag THEN <<Head(list)>> ELSE <<>>)
             \o FindAll(Head(list), tag) \o FindAllIn(Tail(list), tag)

\* the children with this tag
ChildrenTagged(xml, tag) == SelectSeq(xml.children, LAMBDA x : x.tag = tag)

\* the reordering of a <compounddef> applies
CompoundReordered(xml) ==
    xml.tag = "compounddef" /\ ChildrenTagged(xml, "templateparamlist") # <<>>

\* next(...) for the <name> of an enum raises StopIteration
EnumNoName(xml) ==
    /\ ~CompoundReordered(xml)
    /\ xml.kind = "enum"
    /\ ChildrenTagged(xml, "name") = <<>>

\* what "for x in xml" goes through
Iterated(xml) ==
    IF CompoundReordered(xml)
    THEN <<ChildrenTagged(xml, "templateparamlist")[1]>>
             \o SelectSeq(xml.children, LAMBDA x : x.tag # "templateparamlist")
    ELSE IF xml.kind = "enum"
    THEN <<ChildrenTagged(xml, "name")[1],
           IF ChildrenTagged(xml, "briefdescription") # <<>>
           THEN ChildrenTagged(xml, "briefdescription")[1] ELSE Text(<<>>)>>
             \o SelectSeq(xml.children,
                          LAMBDA x : x.tag \notin {"briefdescription", "name"})
    ELSE xml.children

\* the context after the first lines of convert_to_rst
RstEnter(xml, context) ==
    context \o <<xml.tag>> \o (IF xml.kind = "enum" THEN <<"enum">> ELSE <<>>)

\* what convert_to_rst adds for a run of text
RstText(x) ==
    (IF x # <<".">> /\ x # <<>> /\ x[1] \notin UpperChars THEN <<" ">> ELSE <<>>) \o x

\* "type declname" of the <param> y; y.type.text raises AttributeError
RstParam(y) ==
    IF FindAll(y, "type") = <<>> THEN [ret |-> <<>>, raised |-> TRUE]
    ELSE [ret |-> TextOf(FindAll(y, "type")[1])
                      \o (IF FindAll(y, "declname") # <<>>
                          THEN <<" ">> \o TextOf(FindAll(y, "declname")[1])
                          ELSE <<>>),
          raised |-> FALSE]

\* the branch of convert_to_rst for a <templateparamlist>
RstTemplateParams(x, context) ==
    LET params == [i \in 1..Len(FindAll(x, "param")) |->
                      RstParam(FindAll(x, "param")[i])]
    IN  [ret |-> <<"t","e","m","p","l","a","t","e"," ","<">>
                     \o Join(<<","," ">>, [i \in 1..Len(params) |-> params[i].ret])
                     \o <<">">>,
         context |-> context,
         raised |-> \E i \in 1..Len(params) : params[i].raised]

\* a result of convert_to_rst after the text before
After(before, r) ==
    [ret |-> before \o r.ret, context |-> r.context, raised |-> r.raised]

Said(text, context) == [ret |-> text, context |-> context, raised |-> FALSE]

Raised(context) == [ret |-> <<>>, context |-> context, raised |-> TRUE]

RECURSIVE convert_to_rst(_, _)
RECURSIVE RstLoop(_, _)
RECURSIVE RstRaises(_, _)

\* one <parameteritem> of the branch for <parameterlist kind="exception">
RstException(y, context) ==
    IF FindAll(y, "parametername") = <<>> THEN Raised(context)
    ELSE IF TextOf(FindAll(y, "parametername")[1]) = <<"(","N","o","n","e",")">>
    THEN Said(<<>>, context)
    ELSE IF FindAll(y, "parameterdescription") = <<>> THEN Raised(context)
    ELSE After(NL \o NL \o <<":","r","a","i","s","e","s"," ">>
                   \o translate_cpp_to_py(
                          TextOf(FindAll(y, "parametername")[1]))
                   \o <<":"," ">>,
               convert_to_rst(FindAll(y, "parameterdescription")[1],
                              context))

\* r, and then what follows it unless r raised
Then(r, items, context) ==
    IF r.raised THEN r
    ELSE IF items = <<>> THEN r
    ELSE After(r.ret, RstRaises(items, r.context))

\* the loop over the <parameteritem> elements
RstRaises(items, context) ==
    IF items = <<>> THEN Said(<<>>, context)
    ELSE Then(RstException(Head(items), context), Tail(items), context)

\* the body of "for x in xml" for the child x
RstItem(x, context) ==
    LET enum == \E i \in 1..Len(context) : context[i] = "enum"
    IN  CASE x.tag = NoTag -> Said(RstText(Strip(x.text)), context)
          [] enum /\ x.tag = "name" ->
                 Said(Strip(TextOf(x)), context)
          [] enum /\ x.tag = "enumvalue" ->
                 After(NL \o NL \o <<".","."," ","p","y",":","e","n","u","m","e","r","a","t","o","r",":",":"," ">>,
                       convert_to_rst(x, context))
          [] x.tag = "briefdescription" ->
                 After(NL \o NL, convert_to_rst(x, context))
          [] x.tag = "detaileddescription" ->
                 After(NL, convert_to_rst(x, context))
          [] x.tag = "templateparamlist" -> RstTemplateParams(x, context)
          [] x.tag = "computeroutput" ->
                 Said(IF Len(TextOf(x)) # 0
                      THEN <<" ","grave","grave">> \o translate_cpp_to_py(TextOf(x)) \o <<"grave","grave">>
                      ELSE <<>>, context)
          [] x.tag = "formula" ->
                 Said(<<" ",":","m","a","t","h",":","grave">> \o ReplaceAll(TextOf(x), 1, <<"$">>, <<>>)
                          \o <<"grave">>, context)
          [] x.tag = "title" ->
                 Said(NL \o NL \o <<":">> \o Lower(TextOf(x)) \o <<":"," ">>, context)
          [] x.tag = "para" -> convert_to_rst(x, context)
          [] x.tag \in {"simplesect", "parameterlist"} /\ x.kind = NoAttr ->
                 \* x.attrs["kind"] raises KeyError
                 Raised(context)
          [] x.tag = "simplesect" /\ x.kind = "par" ->
                 convert_to_rst(x, context)
          [] x.tag = "parameterlist" /\ x.kind = "exception" ->
                 RstRaises(FindAll(x, "parameteritem"), context)
          [] x.tag = "simplesect" /\ x.kind = "see" ->
                 After(NL \o NL \o <<".","."," ","s","e","e","a","l","s","o",":",":"," ">>, convert_to_rst(x, context))
          [] x.tag = "ref" ->
                 Said(<<" ",":","a","n","y",":","grave">> \o translate_cpp_to_py(TextOf(x)) \o <<"grave">>,
                      context)
          [] x.tag = "emphasis" -> Said(<<" ","*">> \o TextOf(x) \o <<"*">>, context)
          [] x.tag = "bold" -> Said(<<"*","*">> \o TextOf(x) \o <<"*","*">>, context)
          [] x.tag = "compoundname" ->
                 Said(From(TextOf(x), RFind(TextOf(x), <<":",":">>) + 2), context)
          [] x.tag = "ulink" ->
                 IF x.url = NoAttr THEN Raised(context)
                 ELSE Said(<<"grave">> \o TextOf(x) \o <<" ","<">> \o x.url \o <<">","grave","_">>, context)
          [] x.tag = "itemizedlist" -> After(NL, convert_to_rst(x, context))
          [] x.tag = "listitem" ->
                 After(NL \o <<"*"," ">>, convert_to_rst(x, context))
          [] x.tag = "programlisting" ->
                 After(NL \o NL \o <<".","."," ","c","o","d","e","-","b","l","o","c","k",":",":">> \o NL,
                       convert_to_rst(x, context))
          [] x.tag = "codeline" -> After(NL, convert_to_rst(x, context))
          [] x.tag = "highlight" -> convert_to_rst(x, context)
          [] x.tag = "sp" -> Said(<<" ">>, context)
          [] OTHER -> Said(<<>>, context)

\* r, the result for the first child, and then the loop over the rest
RstNext(r, rest) ==
    IF r.raised THEN r ELSE After(r.ret, RstLoop(rest, r.context))

\* "for x in xml"
RstLoop(list, context) ==
    IF list = <<>> THEN Said(<<>>, context)
    ELSE RstNext(RstItem(Head(list), context), Tail(list))

\* the context without its last entry
Pop(context) == SubSeq(context, 1, Len(context) - 1)

\* the last lines of convert_to_rst, for the result r of its loop;
\* context.pop() of the empty list raises IndexError
RstExit(r, c) ==
    IF r.raised THEN r
    ELSE IF c = <<>> THEN Raised(c)
    ELSE [ret |-> r.ret \o (IF c[Len(c)] = "itemizedlist" THEN NL \o NL
                            ELSE <<>>),
          context |-> Pop(c), raised |-> FALSE]

\* a convert_to_rst without the two lines that take the word enum off the
\* context
PopEnum_never(context) == context

\* the context after "if len(context) > 0 and context[-1] == "enum""
PopEnum(context) ==
    IF Len(context) > 0 /\ context[Len(context)] = "enum" THEN Pop(context)
    ELSE context

\* a convert_to_rst that takes its own name off the context and leaves the
\* word enum there
convert_to_rst_leaves_enum(xml, context) ==
    IF EnumNoName(xml) THEN Raised(RstEnter(xml, context))
    ELSE Only({IF r.raised THEN r
               ELSE [ret |-> r.ret \o (IF xml.tag = "itemizedlist"
                                       THEN NL \o NL ELSE <<>>),
                     context |-> SelectSeq(r.context,
                                           LAMBDA t : t # xml.tag),
                     raised |-> FALSE] :
                  r \in {RstLoop(Iterated(xml), RstEnter(xml, context))}})

\* convert_to_rst(xml, context): the text it returns, the list that context
\* names after the call, and whether an exception left the call
convert_to_rst(xml, context) ==
    IF EnumNoName(xml) THEN Raised(RstEnter(xml, context))
    ELSE Only({RstExit(r, PopEnum(r.context)) :
                  r \in {RstLoop(Iterated(xml), RstEnter(xml, context))}})

-----------------------------------------------------------------------------
(* Calls of convert_to_rst on documentation trees, as pybind11_doc makes
   them: one after the other, none naming a context, so that every call
   works on the one list that is the default of the parameter. *)

Para(children) == Elem("para", NoAttr, children)

Detailed(children) == Elem("detaileddescription", NoAttr, children)

\* running text with <computeroutput>
D_para ==
    Detailed(<<Para(<<Text(<<"T","h","e"," ">>),
                      Elem("computeroutput", NoAttr, <<Text(<<"s","i","z","e","_","t">>)>>),
                      Text(<<" ","s","i","z","e",".">>)>>)>>)

\* an <itemizedlist> of two items
D_list ==
    Detailed(<<Para(<<Elem("itemizedlist", NoAttr,
                           <<Elem("listitem", NoAttr, <<Para(<<Text(<<"o","n","e">>)>>)>>),
                             Elem("listitem", NoAttr,
                                  <<Para(<<Text(<<"t","w","o">>)>>)>>)>>)>>)>>)

\* an <itemizedlist> in an item of an <itemizedlist>
D_nested ==
    Detailed(<<Para(<<Elem("itemizedlist", NoAttr,
        <<Elem("listitem", NoAttr,
               <<Para(<<Text(<<"o","u","t">>),
                        Elem("itemizedlist", NoAttr,
                             <<Elem("listitem", NoAttr,
                                    <<Para(<<Text(<<"i","n">>)>>)>>)>>)>>)>>)>>)>>)>>)

\* the <memberdef> of an enum
D_enum ==
    Elem("memberdef", "enum",
         <<Elem("briefdescription", NoAttr, <<Para(<<Text(<<"S","t","a","t","e","s",".">>)>>)>>),
           Elem("name", NoAttr, <<Text(<<"s","t","a","t","e">>)>>),
           Elem("enumvalue", NoAttr,
                <<Elem("name", NoAttr, <<Text(<<"o","n">>)>>),
                  Elem("briefdescription", NoAttr,
                       <<Para(<<Text(<<"I","s"," ","o","n",".">>)>>)>>)>>)>>)

\* the <memberdef> of a function
D_function ==
    Elem("memberdef", "function",
         <<Elem("name", NoAttr, <<Text(<<"r","u","n">>)>>),
           Elem("briefdescription", NoAttr, <<Para(<<Text(<<"R","u","n","s",".">>)>>)>>)>>)

\* <verbatim> is a tag that convert_to_rst has no branch for
D_verbatim ==
    Detailed(<<Para(<<Text(<<"S","e","e">>),
                      Elem("verbatim", NoAttr, <<Text(<<"r","a","w">>)>>)>>)>>)

\* <orderedlist> is another one
D_orderedlist ==
    Detailed(<<Para(<<Elem("orderedlist", NoAttr,
                           <<Elem("listitem", NoAttr,
                                  <<Para(<<Text(<<"f","i","r","s","t">>)>>)>>)>>)>>)>>)

\* an <itemizedlist> without items, and one whose text is in no item
D_emptylist ==
    Detailed(<<Para(<<Text(<<"N","o","n","e",":">>), Elem("itemizedlist", NoAttr, <<>>)>>)>>)

D_barelist ==
    Detailed(<<Para(<<Elem("itemizedlist", NoAttr, <<Text(<<"b","a","r","e">>)>>)>>)>>)

\* the <simplesect kind="return"> that pybind11_doc renders by itself
D_return ==
    Elem("simplesect", "return", <<Para(<<Text(<<"t","h","e"," ","s","i","z","e">>)>>)>>)

\* <parameterlist kind="exception">
D_exception ==
    Detailed(<<Para(<<Elem("parameterlist", "exception",
        <<Elem("parameteritem", NoAttr,
               <<Elem("parameternamelist", NoAttr,
                      <<Elem("parametername", NoAttr, <<Text(<<"E","r","r","o","r">>)>>)>>),
                 Elem("parameterdescription", NoAttr,
                      <<Para(<<Text(<<"i","f"," ","b","a","d",".">>)>>)>>)>>)>>)>>)>>)

\* <programlisting>, whose lines are rendered by calls that name no context
D_listing ==
    Detailed(<<Para(<<Elem("programlisting", NoAttr,
        <<Elem("codeline", NoAttr,
               <<Elem("highlight", NoAttr,
                      <<Text(<<"x">>), Elem("sp", NoAttr, <<>>),
                        Text(<<"y">>)>>)>>)>>)>>)>>)

\* a <ulink> without the attribute url, in the items of a list
D_ulink ==
    Detailed(<<Para(<<Elem("itemizedlist", NoAttr,
        <<Elem("listitem", NoAttr,
               <<Para(<<Elem("ulink", NoAttr, <<Text(<<"h","e","r","e">>)>>)>>)>>)>>)>>)>>)

DocTrees ==
    {D_para, D_list, D_nested, D_enum, D_function, D_verbatim, D_orderedlist,
     D_emptylist, D_barelist, D_return, D_exception, D_listing, D_ulink}

\* the trees of which a run renders more than two
CoreTrees == {D_function, D_enum, D_list, D_nested, D_verbatim}

\* number of trees rendered in a run
MaxTrees == 3

\* the runs: every tree alone and after every tree, and the runs of
\* CoreTrees
Runs ==
    {<<>>} \cup {<<a>> : a \in DocTrees} \cup {<<a, b>> : a, b \in DocTrees}
        \cup SeqsUpTo(CoreTrees, MaxTrees)

InitRender ==
    /\ trees \in Runs
    /\ context_default = <<>> /\ rst = <<>> /\ called = <<>>
    /\ pc = "render"
    /\ idx = 0
    /\ type_ = <<>> /\ py = <<>>
    /\ files = <<>> /\ things = <<>> /\ yml = <<>>
    /\ DOXY_DICT = <<>> /\ ABSTRACT_CLASSES = {} /\ cache = <<>>
    /\ opens = <<>> /\ builds = <<>> /\ out = <<>> /\ err = <<>>

\* doc += convert_to_rst(trees[idx]); an exception ends the run
Render ==
    /\ pc = "render"
    /\ idx < Len(trees)
    /\ \E r \in {convert_to_rst(trees[idx + 1], context_default)} :
           /\ context_default' = r.context
           /\ IF r.raised
              THEN pc' = "raised" /\ UNCHANGED <<idx, rst>>
              ELSE pc' = pc /\ idx' = idx + 1 /\ rst' = Append(rst, r.ret)
    /\ UNCHANGED <<trees, type_, py, called, input, interp, out, err>>

RenderEnd ==
    /\ pc = "render"
    /\ idx = Len(trees)
    /\ pc' = "rendered"
    /\ UNCHANGED <<input, interp, call, idx, out, err>>

NextRender == Render \/ RenderEnd

SpecRender == InitRender /\ [][NextRender]_vars

-----------------------------------------------------------------------------
(* Output pybind11 stuff.  A statement is a record of the values that fill
   the holes of the f-string that produces it, with the member (fn, sig) it
   was produced for. *)

Q == <<"\"">>

pybind11_stub(s, thing) ==
    IF ~is_namespace(s, thing).ret
    THEN IF ~is_class_template(s, thing).ret
         THEN [stmt |-> "class_", cls |-> shortname_(s, thing),
               name |-> Q \o shortname(thing) \o Q]
         ELSE [stmt |-> "class_", cls |-> shortname_(s, thing),
               name |-> <<"n","a","m","e",".","c","_","s","t","r","(",")">>]
    ELSE [stmt |-> "m"]

\* ", ".join([f'py::arg("{x}")' for x in params_n])
pybind11_fn_params(x) ==
    LET params_n == param_names(x)
    IN  Join(<<","," ">>, [i \in 1..Len(params_n) |->
                       <<"p","y",":",":","a","r","g","(">> \o Q \o params_n[i] \o Q \o <<")">>])

pybind11_operator(s, thing, fn) ==
    LET op == IF StartsWith(fn, <<"o","p","e","r","a","t","o","r">>) THEN From(fn, Len(<<"o","p","e","r","a","t","o","r">>))
              ELSE fn
    IN  IF op \notin {<<"a","t">>, <<"h","a","s","h","_","v","a","l","u","e">>}
        THEN <<"p","y",":",":","s","e","l","f"," ">> \o op \o <<" ","p","y",":",":","s","e","l","f">>
        ELSE Q \o translate_cpp_operator_to_py(fn) \o Q \o <<","," ","&">>
                 \o shortname_(s, thing) \o <<":",":">> \o fn
                 \o <<","," ","p","y",":",":","i","s","_","o","p","e","r","a","t","o","r","(",")">>

\* an iterator_end that cuts every name after five characters
iterator_end_pos_5(fn) == <<"e","n","d">> \o From(fn, 5)

\* the name pybind11_iterator computes for the end of the range
iterator_end(fn) ==
    IF StartsWith(fn, <<"b","e","g","i","n">>) THEN <<"e","n","d">> \o From(fn, 5)
    ELSE <<"c","e","n","d">> \o From(fn, 6)

pybind11_iterator(fn, param_n) ==
    [call |-> "py::make_iterator",
     first |-> <<"s","e","l","f",".">> \o fn \o <<"(">> \o param_n \o <<")">>,
     second |-> <<"s","e","l","f",".">> \o iterator_end(fn) \o <<"(">> \o param_n \o <<")">>]

pybind11_enum(thing, fn, param_types, x) ==
    [stmt |-> "enum_", fn |-> fn, sig |-> param_types,
     cpp_name |-> shortname(thing) \o <<":",":">> \o fn,
     py_name |-> shortname(thing) \o <<"_","_">> \o fn,
     value |-> [i \in 1..Len(x.enumvalue) |->
                   [name |-> x.enumvalue[i],
                    cpp |-> shortname(thing) \o <<":",":">> \o fn \o <<":",":">>
                                \o x.enumvalue[i]]]]

\* the branch of pybind11_fn for is_overloaded(thing, fn) or
\* is_iterator(thing, fn)
pybind11_fn_lambda(s, thing, fn, x) ==
    LET self == IF is_const_mem_fn(s, thing, x)
                THEN shortname_(s, thing) \o <<" ","c","o","n","s","t","&"," ","s","e","l","f">>
                ELSE shortname_(s, thing) \o <<"&"," ","s","e","l","f">>
        sig == IF ~is_namespace(s, thing).ret
               THEN Join(<<","," ">>, <<self>> \o fn_sig(x))
               ELSE Join(<<","," ">>, fn_sig(x))
        pos == Find(fn, <<"_">>)
        suffix == IF pos # -1 THEN From(fn, pos) ELSE <<>>
    IN  [py_fn_name |-> IF is_iterator(fn) THEN Q \o <<"i","t","e","r","a","t","o","r">> \o suffix \o Q
                        ELSE Q \o shortname(fn) \o Q \o <<","," ">>,
         func |-> [form |-> "lambda", sig |-> sig,
                   body |-> Only({
                       IF is_iterator(fn) THEN pybind11_iterator(fn, param_n)
                       ELSE [call |-> "member",
                             first |-> <<"s","e","l","f",".">> \o fn \o <<"(">> \o param_n \o <<")">>] :
                       param_n \in {Join(<<","," ">>, param_names(x))}})]]

\* the statement pybind11_fn returns for a member that is neither a public
\* enum nor a constructor
pybind11_fn_def(s, thing, fn, params_t) ==
    Only({[stmt |-> IF is_static_mem_fn(s, thing, x) THEN "def_static"
                    ELSE "def",
           fn |-> fn, sig |-> params_t,
           py_fn_name |-> head.py_fn_name, func |-> head.func,
           params_n |-> pybind11_fn_params(x)] :
        x \in {Overload(s.DOXY_DICT, thing, fn, params_t)},
        head \in {IF is_overloaded(s.DOXY_DICT, thing, fn) \/ is_iterator(fn)
                  THEN pybind11_fn_lambda(s, thing, fn,
                           Overload(s.DOXY_DICT, thing, fn, params_t))
                  ELSE IF is_operator(fn)
                  THEN [py_fn_name |-> <<>>,
                        func |-> [form |-> "operator",
                                  text |-> pybind11_operator(s, thing, fn)]]
                  ELSE [py_fn_name |-> Q \o shortname(fn) \o Q \o <<","," ">>,
                        func |-> [form |-> "reference",
                                  text |-> <<"&">> \o shortname_(s, thing)
                                               \o <<":",":">> \o fn]]}})

\* the statements pybind11_fn returns for a constructor
pybind11_fn_init(s, thing, fn, params_t) ==
    IF is_abstract_class(s, thing).ret THEN <<>>
    ELSE <<[stmt |-> "init", fn |-> fn, sig |-> params_t,
            types |-> IF is_class_template(s, thing).ret
                      THEN ReplaceAll(params_t, 1, shortname(thing),
                                      shortname_(s, thing))
                      ELSE params_t]>>

\* a pybind11_fn that looks at the number of overloads before it looks at
\* the kind of the member
pybind11_fn_overloads_first(s, thing, fn, params_t) ==
    LET x == Overload(s.DOXY_DICT, thing, fn, params_t)
    IN  IF is_overloaded(s.DOXY_DICT, thing, fn) /\ ~is_constructor(thing, fn)
        THEN <<pybind11_fn_def(s, thing, fn, params_t)>>
        ELSE IF is_enum(x) /\ is_public(s, thing, x)
        THEN <<pybind11_enum(thing, fn, params_t, x)>>
        ELSE IF is_constructor(thing, fn)
        THEN pybind11_fn_init(s, thing, fn, params_t)
        ELSE <<pybind11_fn_def(s, thing, fn, params_t)>>

\* a pybind11_fn that looks at the name of the member before it looks at its
\* kind
pybind11_fn_constructor_first(s, thing, fn, params_t) ==
    LET x == Overload(s.DOXY_DICT, thing, fn, params_t)
    IN  IF is_constructor(thing, fn)
        THEN pybind11_fn_init(s, thing, fn, params_t)
        ELSE IF is_enum(x) /\ is_public(s, thing, x)
        THEN <<pybind11_enum(thing, fn, params_t, x)>>
        ELSE <<pybind11_fn_def(s, thing, fn, params_t)>>

\* the statements pybind11_fn returns for the entry of __DOXY_DICT[thing][fn]
\* recorded under params_t: none for the empty string, else one
pybind11_fn(s, thing, fn, params_t) ==
    LET x == Overload(s.DOXY_DICT, thing, fn, params_t)
    IN  IF is_enum(x) /\ is_public(s, thing, x)
        THEN <<pybind11_enum(thing, fn, params_t, x)>>
        ELSE IF is_constructor(thing, fn)
        THEN pybind11_fn_init(s, thing, fn, params_t)
        ELSE <<pybind11_fn_def(s, thing, fn, params_t)>>

\* pybind11_fn is left by an exception: the KeyError of is_static_mem_fn,
\* which is asked for every member that is neither a public enum nor a
\* constructor
pybind11_fn_raises(s, thing, fn, params_t) ==
    LET x == Overload(s.DOXY_DICT, thing, fn, params_t)
    IN  /\ ~(is_enum(x) /\ is_public(s, thing, x))
        /\ ~is_constructor(thing, fn)
        /\ is_static_mem_fn_raises(s, thing, x)

pybind11_default_repr(s, thing) ==
    IF is_abstract_class(s, thing).ret THEN <<>>
    ELSE <<[stmt |-> "repr", cls |-> shortname_(s, thing)]>>

-----------------------------------------------------------------------------
(* The main event *)

\* the conditions of skip_fn on the names alone and on the <memberdef>
skip_fn_member(fn, params_t, x) ==
    \/ EndsWith(fn, <<"_","n","o","_","c","h","e","c","k","s">>)
    \/ Contains(params_t, <<"i","n","i","t","i","a","l","i","z","e","r","_","l","i","s","t">>)
    \/ StartsWith(fn, <<"c","e","n","d">>)
    \/ StartsWith(fn, <<"e","n","d">>)
    \/ fn \in {<<"o","p","e","r","a","t","o","r","=">>, <<"o","p","e","r","a","t","o","r","[","]">>, <<"o","p","e","r","a","t","o","r","<","<">>}
    \/ Contains(params_t, <<"&","&">>)
    \/ (Contains(params_t, <<"*">>) /\ Strip(params_t) # <<"b","o","o","l","(","*",")","(",")">>)
    \/ Contains(return_type(x), <<"*">>)
    \/ is_typedef(x)

\* a skip_fn that asks for no visibility
skip_fn_any_prot(s, thing, fn, params_t) ==
    LET x == Overload(s.DOXY_DICT, thing, fn, params_t)
    IN  skip_fn_member(fn, params_t, x) \/ is_deleted_mem_fn(x)

\* a skip_fn that lets deleted members through
skip_fn_keep_deleted(s, thing, fn, params_t) ==
    LET x == Overload(s.DOXY_DICT, thing, fn, params_t)
    IN  skip_fn_member(fn, params_t, x) \/ ~is_public(s, thing, x)

\* skip_fn for a member recorded in __DOXY_DICT[thing]
skip_fn(s, thing, fn, params_t) ==
    LET x == Overload(s.DOXY_DICT, thing, fn, params_t)
    IN  \/ skip_fn_member(fn, params_t, x)
        \/ is_deleted_mem_fn(x)
        \/ ~is_public(s, thing, x)

\* the two loops of generate with the outer one taking the names from the
\* last to the first
RECURSIVE FlattenDict_last_first(_)
FlattenDict_last_first(fns) ==
    IF fns = <<>> THEN <<>>
    ELSE FlattenDict_last_first(Tail(fns))
         \o [i \in 1..Len(Head(fns).val) |->
                [fn |-> Head(fns).key, sig |-> Head(fns).val[i].key]]

\* the (fn, param_types) pairs in the order of the two loops of generate
RECURSIVE FlattenDict(_)
FlattenDict(fns) ==
    IF fns = <<>> THEN <<>>
    ELSE [i \in 1..Len(Head(fns).val) |->
             [fn |-> Head(fns).key, sig |-> Head(fns).val[i].key]]
         \o FlattenDict(Tail(fns))

RECURSIVE GenerateLoop(_, _, _)
GenerateLoop(s, thing, todo) ==
    IF todo = <<>> THEN <<>>
    ELSE (IF skip_fn(s, thing, Head(todo).fn, Head(todo).sig) THEN <<>>
          ELSE pybind11_fn(s, thing, Head(todo).fn, Head(todo).sig))
         \o GenerateLoop(s, thing, Tail(todo))

\* the loop of generate is left by an exception of pybind11_fn
RECURSIVE GenerateRaises(_, _, _)
GenerateRaises(s, thing, todo) ==
    IF todo = <<>> THEN FALSE
    ELSE \/ /\ ~skip_fn(s, thing, Head(todo).fn, Head(todo).sig)
            /\ pybind11_fn_raises(s, thing, Head(todo).fn, Head(todo).sig)
         \/ GenerateRaises(s, thing, Tail(todo))

\* the interpreter state after pybind11_stub(thing)
generate_stub(s, thing) ==
    IF is_namespace(s, thing).ret THEN s ELSE is_class_template(s, thing).s

\* the interpreter state after pybind11_default_repr(thing)
generate_repr(s, thing) ==
    Only({IF a.ret THEN a.s ELSE is_class_template(a.s, thing).s :
             a \in {is_abstract_class(s, thing)}})

\* generate after "if len(doxygen_filename(thing)) == 0": g is what the
\* first get_xml(thing) did, ret the sequence of statements of the string
\* that generate returns, and raised says that an exception left generate
\* instead
generate_found(g, thing) ==
    Only({[s |-> s3,
           ret |-> <<pybind11_stub(g.s, thing)>>
                     \o pybind11_default_repr(s1, thing)
                     \o GenerateLoop(s3, thing,
                                     FlattenDict(s3.DOXY_DICT[thing])),
           raised |-> GenerateRaises(s3, thing,
                                     FlattenDict(s3.DOXY_DICT[thing]))] :
        \* the state after pybind11_stub
        s1 \in {generate_stub(g.s, thing)},
        \* the state after pybind11_default_repr and fns = get_xml(thing)
        s3 \in {get_xml(generate_repr(generate_stub(g.s, thing), thing),
                        thing).s}})

\* a generate without its first two lines: the opening statement is written
\* for a thing that has no file
generate_no_guard(s, thing) ==
    Only({IF Len(d.ret) = 0
          THEN [s |-> d.s, ret |-> <<pybind11_stub(d.s, thing)>>,
                raised |-> FALSE]
          ELSE generate_found(get_xml(d.s, thing), thing) :
             d \in {doxygen_filename(s, thing)}})

generate(s, thing) ==
    Only({IF Len(d.ret) = 0
          THEN [s |-> d.s, ret |-> <<>>, raised |-> FALSE]
          ELSE generate_found(get_xml(d.s, thing), thing) :
             d \in {doxygen_filename(s, thing)}})

-----------------------------------------------------------------------------
(* python/generate_pybind11.py, the predecessor of the script, which binds
   the members that a yml file lists.  Its functions that have a namesake
   in etc/generate_pybind11.py carry the prefix yml_ here. *)

\* __EXCEPTIONAL_MEM_FN[mem_fn] % class_n
exceptional_mem_fn(class_n, mem_fn) ==
    CASE mem_fn = <<"r","u","n","_","f","o","r">> ->
           <<"(","v","o","i","d"," ","(">> \o class_n
               \o <<":",":","*",")","(","s","t","d",":",":","c","h","r","o","n","o",":",":","n","a","n","o","s","e","c","o","n","d","s",")",")","&"," ","R","u","n","n","e","r",":",":","r","u","n","_","f","o","r">>
      [] mem_fn = <<"r","u","n","_","u","n","t","i","l">> ->
           <<"(","v","o","i","d"," ","(">> \o class_n
               \o <<":",":","*",")","(","s","t","d",":",":","f","u","n","c","t","i","o","n","<","b","o","o","l","(",")",">"," ","&",")",")"," ","&"," ","R","u","n","n","e","r",":",":","r","u","n","_","u","n","t","i","l">>
      [] mem_fn = <<"r","e","p","o","r","t","_","e","v","e","r","y">> ->
           <<"(","v","o","i","d"," ","(">> \o class_n
               \o <<":",":","*",")","(","s","t","d",":",":","c","h","r","o","n","o",":",":","n","a","n","o","s","e","c","o","n","d","s",")",")"," ","&"," ","R","u","n","n","e","r",":",":","r","e","p","o","r","t","_","e","v","e","r","y">>

\* the keys of __EXCEPTIONAL_MEM_FN
EXCEPTIONAL_MEM_FN == {<<"r","u","n","_","f","o","r">>, <<"r","u","n","_","u","n","t","i","l">>, <<"r","e","p","o","r","t","_","e","v","e","r","y">>}

\* doxygen_filename: the file name, or FileNotFoundError
yml_doxygen_filename(class_n) ==
    LET n == Lower(UnderscoreUpper(ReplaceAll(class_n, 1, <<":",":">>, <<"_","1","_","1">>)))
    IN  IF FileExists(<<"d","o","c","s","/","x","m","l","/","c","l","a","s","s">> \o n \o <<".","x","m","l">>)
        THEN [ret |-> <<"d","o","c","s","/","x","m","l","/","c","l","a","s","s">> \o n \o <<".","x","m","l">>, raised |-> FALSE]
        ELSE IF FileExists(<<"x","m","l","/","s","t","r","u","c","t">> \o n \o <<".","x","m","l">>)
        THEN [ret |-> <<"d","o","c","s","/","x","m","l","/","s","t","r","u","c","t">> \o n \o <<".","x","m","l">>, raised |-> FALSE]
        ELSE [ret |-> <<>>, raised |-> TRUE]

\* what get_xml does to the interpreter state
yml_get_xml(s, class_n) ==
    LET d == yml_doxygen_filename(class_n)
    IN  IF class_n \in DOMAIN s.DOXY_DICT THEN [s |-> s, raised |-> FALSE]
        ELSE IF d.raised \/ ~FileExists(d.ret)
        THEN [s |-> s, raised |-> TRUE]
        ELSE [s |-> [s EXCEPT
                       !.opens = Opened(@, d.ret, "get_xml"),
                       !.builds = Put(@, class_n, Count(@, class_n) + 1),
                       !.DOXY_DICT =
                           Put(@, class_n,
                               BuildFnDict(files[d.ret].memberdef, <<>>))],
              raised |-> FALSE]

\* s[a:b] for a >= 0
PySlice(s, a, b) ==
    SubSeq(s, a + 1, IF b < 0 THEN Len(s) + b ELSE b)

\* re.sub("\s{2,}", " ", s)
RECURSIVE CollapseSpaces(_, _)
CollapseSpaces(s, i) ==
    IF i > Len(s) THEN <<>>
    ELSE IF s[i] \in SpaceChars /\ i < Len(s) /\ s[i + 1] \in SpaceChars
         THEN LET stop == CHOOSE j \in (i + 1)..(Len(s) + 1) :
                              /\ \A k \in i..(j - 1) : s[k] \in SpaceChars
                              /\ j = Len(s) + 1 \/ s[j] \notin SpaceChars
              IN  <<" ">> \o CollapseSpaces(s, stop)
         ELSE <<s[i]>> \o CollapseSpaces(s, i + 1)

\* re.sub("(?<=[c])(?=[^...])", " ", s): a space after each c that a
\* character outside of excl follows
SpaceAfter(s, c, excl) ==
    Flatten([i \in 1..Len(s) |->
                IF i < Len(s) /\ s[i] = c /\ s[i + 1] \notin excl
                THEN <<s[i], " ">> ELSE <<s[i]>>])

\* re.sub("(?<=[^...])(?=[c])", " ", s): a space before each c that
\* follows a character outside of excl
SpaceBefore(s, c, excl) ==
    Flatten([i \in 1..Len(s) |->
                IF i < Len(s) /\ s[i] \notin excl /\ s[i + 1] = c
                THEN <<s[i], " ">> ELSE <<s[i]>>])

\* re.sub("\s*,\s*", ",", s)
RECURSIVE TightCommas(_, _)
TightCommas(s, i) ==
    IF i > Len(s) THEN <<>>
    ELSE LET commas == {j \in i..Len(s) :
                           /\ s[j] = ","
                           /\ \A k \in i..(j - 1) : s[k] \in SpaceChars}
         IN  IF commas # {}
             THEN LET j == CHOOSE c \in commas : TRUE
                      stop == CHOOSE e \in (j + 1)..(Len(s) + 1) :
                                  /\ \A k \in (j + 1)..(e - 1) :
                                         s[k] \in SpaceChars
                                  /\ e = Len(s) + 1 \/ s[e] \notin SpaceChars
                  IN  <<",">> \o TightCommas(s, stop)
             ELSE <<s[i]>> \o TightCommas(s, i + 1)

normalize_params_t(params_t) ==
    IF params_t = <<"b","o","o","l"," ","(","*",")">> THEN <<"b","o","o","l","(","*",")","(",")">>
    ELSE LET p1 == CollapseSpaces(Strip(params_t), 1)
             p2 == SpaceAfter(p1, "<", SpaceChars)
             p3 == SpaceBefore(p2, ">", SpaceChars)
             p4 == SpaceBefore(p3, "&", SpaceChars \cup {"&"})
             p5 == SpaceAfter(p4, "&", SpaceChars \cup {"&"})
         IN  TightCommas(p5, 1)

\* <<mem_fn, params_t>> of an entry of the yml file
extract_func_params_t(yml_entry) ==
    LET pos == Find(yml_entry, <<"(">>)
    IN  IF pos = -1 THEN <<yml_entry, <<>>>>
        ELSE <<SubSeq(yml_entry, 1, pos),
               normalize_params_t(
                   PySlice(yml_entry, pos + 1, RFind(yml_entry, <<")">>)))>>

\* a skip_mem_fn without its try: the KeyError of get_xml leaves it
skip_mem_fn_no_try(s, class_n, mem_fn, params_t) ==
    IF StartsWith(mem_fn, <<"o","p","e","r","a","t","o","r">>)
    THEN [s |-> s, ret |-> TRUE, raised |-> FALSE]
    ELSE Only({
        IF g.raised \/ NoOverload(g.s.DOXY_DICT, class_n, mem_fn, params_t)
        THEN [s |-> g.s, ret |-> FALSE, raised |-> TRUE]
        ELSE LET x == Overload(g.s.DOXY_DICT, class_n, mem_fn, params_t)
             IN  [s |-> g.s,
                  ret |-> is_deleted_mem_fn(x) \/ is_mem_fn_template(x),
                  raised |-> FALSE] : g \in {yml_get_xml(s, class_n)}})

\* skip_mem_fn: ret says whether to skip, raised that FileNotFoundError left
\* it
skip_mem_fn(s, class_n, mem_fn, params_t) ==
    IF StartsWith(mem_fn, <<"o","p","e","r","a","t","o","r">>)
    THEN [s |-> s, ret |-> TRUE, raised |-> FALSE]
    ELSE Only({
        IF g.raised THEN [s |-> g.s, ret |-> FALSE, raised |-> TRUE]
        ELSE IF NoOverload(g.s.DOXY_DICT, class_n, mem_fn, params_t)
        THEN [s |-> g.s, ret |-> TRUE, raised |-> FALSE]
        ELSE LET x == Overload(g.s.DOXY_DICT, class_n, mem_fn, params_t)
             IN  [s |-> g.s,
                  ret |-> is_deleted_mem_fn(x) \/ is_mem_fn_template(x),
                  raised |-> FALSE] : g \in {yml_get_xml(s, class_n)}})

\* ", ".join of py::arg("...") of the documented parameter names
pybind11_mem_fn_params_n(x) ==
    Join(<<","," ">>, [i \in 1..Len(x.parametername) |->
                   <<"p","y",":",":","a","r","g","(">> \o Q \o x.parametername[i] \o Q \o <<")">>])

\* the callable that pybind11_mem_fn binds: a pybind11_mem_fn that looks at
\* the number of overloads first
mem_fn_func_overloads_first(D, class_n, mem_fn, params_t) ==
    LET x == Overload(D, class_n, mem_fn, params_t)
    IN  IF is_overloaded(D, class_n, mem_fn)
        THEN [form |-> "overload_cast",
              text |-> <<"p","y",":",":","o","v","e","r","l","o","a","d","_","c","a","s","t","<">> \o params_t \o <<">","(","&">> \o class_n
                           \o <<":",":">> \o mem_fn
                           \o (IF x.const = "yes" THEN <<","," ","p","y",":",":","c","o","n","s","t","_">> ELSE <<>>)
                           \o <<")">>]
        ELSE IF mem_fn \in EXCEPTIONAL_MEM_FN
        THEN [form |-> "exceptional",
              text |-> exceptional_mem_fn(class_n, mem_fn)]
        ELSE [form |-> "reference",
              text |-> <<"&">> \o class_n \o <<":",":">> \o mem_fn]

\* the callable that pybind11_mem_fn binds
mem_fn_func(D, class_n, mem_fn, params_t) ==
    LET x == Overload(D, class_n, mem_fn, params_t)
    IN  IF mem_fn \in EXCEPTIONAL_MEM_FN
        THEN [form |-> "exceptional",
              text |-> exceptional_mem_fn(class_n, mem_fn)]
        ELSE IF is_overloaded(D, class_n, mem_fn)
        THEN [form |-> "overload_cast",
              text |-> <<"p","y",":",":","o","v","e","r","l","o","a","d","_","c","a","s","t","<">> \o params_t \o <<">","(","&">> \o class_n
                           \o <<":",":">> \o mem_fn
                           \o (IF x.const = "yes" THEN <<","," ","p","y",":",":","c","o","n","s","t","_">> ELSE <<>>)
                           \o <<")">>]
        ELSE [form |-> "reference",
              text |-> <<"&">> \o class_n \o <<":",":">> \o mem_fn]

\* pybind11_mem_fn, for a member that skip_mem_fn did not skip
pybind11_mem_fn(D, class_n, mem_fn, params_t) ==
    IF is_constructor(class_n, mem_fn)
    THEN [stmt |-> "init", fn |-> mem_fn, sig |-> params_t,
          types |-> params_t]
    ELSE [stmt |-> "def", fn |-> mem_fn, sig |-> params_t,
          py_fn_name |-> Q \o mem_fn \o Q,
          func |-> mem_fn_func(D, class_n, mem_fn, params_t),
          params_n |-> pybind11_mem_fn_params_n(
                           Overload(D, class_n, mem_fn, params_t))]

\* the body of the loop of generate for the entry e, which skip_mem_fn
\* answered by skip; rest is what the loop does for the entries after it
YmlEntry(class_n, e, skip, rest) ==
    [s |-> rest.s,
     ret |-> (IF skip.ret THEN <<>>
              ELSE <<pybind11_mem_fn(skip.s.DOXY_DICT, class_n, e[1], e[2])>>)
                 \o rest.ret,
     raised |-> rest.raised]

\* the loop of generate over the entries of the yml file
RECURSIVE YmlLoop(_, _, _)
YmlLoop(s, class_n, entries) ==
    IF entries = <<>> THEN [s |-> s, ret |-> <<>>, raised |-> FALSE]
    ELSE Only({
        IF skip.raised THEN [s |-> skip.s, ret |-> <<>>, raised |-> TRUE]
        ELSE YmlEntry(class_n, extract_func_params_t(Head(entries)), skip,
                      YmlLoop(skip.s, class_n, Tail(entries))) :
        skip \in {skip_mem_fn(s, class_n,
                              extract_func_params_t(Head(entries))[1],
                              extract_func_params_t(Head(entries))[2])}})

\* generate(ymlfname) for the parsed file y: the statements of the string it
\* returns, nothing when it returns None
yml_generate(s, y) ==
    IF y.section = <<>>
    THEN [s |-> s, ret |-> <<>>, none |-> TRUE, raised |-> FALSE]
    ELSE Only({[s |-> loop.s,
                ret |-> <<[stmt |-> "class_", cls |-> y.class_n,
                           name |-> Q \o shortname(y.class_n) \o Q]>>
                            \o loop.ret,
                none |-> FALSE, raised |-> loop.raised] :
                  loop \in {YmlLoop(s, y.class_n, y.section[1])}})

-----------------------------------------------------------------------------
(* The inputs and main of python/generate_pybind11.py *)

M_run_for_int ==
    Fn(<<"r","u","n","_","f","o","r">>, "public", "no", "no", <<"v","o","i","d">>, <<"(","i","n","t"," ","n",")">>, <<>>,
       <<Param(<<"i","n","t">>, <<"n">>)>>)

\* the <memberdef> elements of the files that this script reads
YmlMembers ==
    {<<>>, <<M_bar_int>>, <<M_bar_int, M_bar_str>>,
     <<M_bar_int, M_bar_int_const>>, <<M_bar_str, M_bar_deleted>>,
     <<M_tem_template, M_bar_int>>, <<M_Foo, M_bar_int>>,
     <<M_operator_eq, M_Foo>>, <<M_run_for>>, <<M_run_for, M_run_for_int>>,
     <<M_run_for_int, M_run_for, M_bar_str>>}

YmlDocs ==
    [abstract : {"no"}, templateparamlist : {<<>>}, memberdef : YmlMembers]

\* the entries a section of a yml file is made of
YmlEntryPool ==
    {<<"b","a","r">>, <<"b","a","r","(","i","n","t",")">>, <<"b","a","r","("," ","s","t","d",":",":","s","t","r","i","n","g"," ","c","o","n","s","t","&",")">>, <<"F","o","o","(",")">>,
     <<"r","u","n","_","f","o","r","(","s","t","d",":",":","c","h","r","o","n","o",":",":","n","a","n","o","s","e","c","o","n","d","s",")">>, <<"o","p","e","r","a","t","o","r","=","=","(","F","o","o"," ","c","o","n","s","t"," ","&",")">>,
     <<"t","e","m","(","T"," ","c","o","n","s","t"," ","&",")">>}

\* number of entries of a yml file
MaxEntries == 2

\* a parsed yml file: the name of the class and, unless the class maps to
\* nothing, the entries of its one section
YmlFiles ==
    [class_n : {T_Foo},
     section : {<<>>} \cup {<<q>> : q \in SeqsUpTo(YmlEntryPool, MaxEntries)}]

SmallYmlFiles ==
    {[class_n |-> T_Foo, section |-> <<<<<<"b","a","r","(","i","n","t",")">>>>>>],
     [class_n |-> T_ls_Bar, section |-> <<<<<<"b","a","r">>, <<"F","o","o","(",")">>>>>>]}

\* the directory: the file of the class Foo, or files of a struct Foo
YmlDirectories ==
    {(<<"d","o","c","s","/","x","m","l","/","c","l","a","s","s","_","f","o","o",".","x","m","l">> :> doc) : doc \in YmlDocs}

YmlSmallDirectories ==
    UNION {[fs -> SmallDocs] :
              fs \in SUBSET {<<"d","o","c","s","/","x","m","l","/","c","l","a","s","s","_","f","o","o",".","x","m","l">>, <<"x","m","l","/","s","t","r","u","c","t","_","f","o","o",".","x","m","l">>,
                             <<"d","o","c","s","/","x","m","l","/","s","t","r","u","c","t","_","f","o","o",".","x","m","l">>}}

InitYml ==
    /\ \/ files \in YmlDirectories /\ yml \in {<<y>> : y \in YmlFiles}
       \/ /\ files \in YmlSmallDirectories
          /\ yml \in SeqsUpTo(SmallYmlFiles, MaxThings)
    /\ things = <<>>
    /\ pc = "yml_main"

\* __parse_args with no file: argparse reports the usage and exits
YmlParseArgsError ==
    /\ pc = "yml_main"
    /\ yml = <<>>
    /\ pc' = "exit"
    /\ err' = Append(err, [error |-> "usage"])
    /\ UNCHANGED <<input, interp, call, idx, out>>

\* one iteration of "for fname in args.files": print(generate(fname)), or
\* the FileNotFoundError that ends the script
YmlFile ==
    /\ pc = "yml_main"
    /\ idx < Len(yml)
    /\ \E g \in {yml_generate([DOXY_DICT |-> DOXY_DICT, opens |-> opens,
                                builds |-> builds], yml[idx + 1])} :
           /\ DOXY_DICT' = g.s.DOXY_DICT
           /\ opens' = g.s.opens
           /\ builds' = g.s.builds
           /\ IF g.raised
              THEN /\ pc' = "raised"
                   /\ err' = Append(err, [error |-> "FileNotFoundError"])
                   /\ UNCHANGED <<idx, out>>
              ELSE /\ idx' = idx + 1
                   /\ out' = Append(out,
                                IF g.none THEN [print |-> "None"]
                                ELSE [print |-> "yml_generate",
                                      thing |-> yml[idx + 1].class_n,
                                      text |-> g.ret])
                   /\ UNCHANGED <<pc, err>>
    /\ UNCHANGED <<input, call, ABSTRACT_CLASSES, cache>>

\* main after its loop
YmlEnd ==
    /\ pc = "yml_main"
    /\ yml # <<>>
    /\ idx = Len(yml)
    /\ pc' = "done"
    /\ UNCHANGED <<input, interp, call, idx, out, err>>

-----------------------------------------------------------------------------
(* main *)

\* x.split(" ")[1]
SecondWord(x) ==
    LET rest == From(x, Find(x, <<" ">>) + 1)
    IN  IF Contains(rest, <<" ">>) THEN SubSeq(rest, 1, Find(rest, <<" ">>)) ELSE rest

\* template_header raises IndexError
template_header_raises(template_p) ==
    \E i \in 1..Len(template_p) :
        template_p[i] # <<"t","y","p","e","n","a","m","e">> /\ ~Contains(template_p[i], <<" ">>)

template_header(thing, template_p) ==
    LET named == SelectSeq(template_p, LAMBDA x : x # <<"t","y","p","e","n","a","m","e">>)
    IN  [print |-> "template_header",
         pack |-> Join(<<","," ">>, template_p),
         alias |-> Join(<<","," ">>, [i \in 1..Len(named) |-> SecondWord(named[i])]),
         using |-> shortname(thing)]

\* the interpreter state as the calls see it
State ==
    [DOXY_DICT |-> DOXY_DICT, ABSTRACT_CLASSES |-> ABSTRACT_CLASSES,
     cache |-> cache, opens |-> opens, builds |-> builds, err |-> err]

SetState(s) ==
    /\ DOXY_DICT' = s.DOXY_DICT
    /\ ABSTRACT_CLASSES' = s.ABSTRACT_CLASSES
    /\ cache' = s.cache
    /\ opens' = s.opens
    /\ builds' = s.builds
    /\ err' = s.err

\* directories with one file, for T_Foo
OneFileDirectories ==
    {(Candidate(<<"c","l","a","s","s">>, T_Foo) :> doc) : doc \in ClassDocs}
        \cup {(Candidate(<<"n","a","m","e","s","p","a","c","e">>, T_Foo) :> doc) : doc \in NamespaceDocs}

\* directories where each candidate of libsemigroups::B_r, and the class
\* file of Foo, exists or not
CandidateFiles ==
    {Candidate(Probe[i], T_ls_Bar) : i \in 1..Len(Probe)}
        \cup {Candidate(<<"c","l","a","s","s">>, T_Foo)}

ManyFileDirectories ==
    UNION {[fs -> SmallDocs] : fs \in SUBSET CandidateFiles}

\* directories with a well-formed file for B_r and a malformed one for Foo
MalformedDirectories ==
    {(Candidate(<<"c","l","a","s","s">>, T_ls_Bar) :> good)
         @@ (Candidate(<<"c","l","a","s","s">>, T_Foo) :> bad) :
        good \in SmallDocs, bad \in MalformedDocs}

\* etc/generate_pybind11.py is run
InitEtc ==
    /\ \/ files \in OneFileDirectories /\ things = <<T_Foo>>
       \/ files \in ManyFileDirectories /\ things \in SeqsUpTo(Things, MaxThings)
       \/ files \in MalformedDirectories /\ things \in SeqsUpTo(Things, MaxThings)
    /\ yml = <<>>
    /\ pc = "start"

Init ==
    /\ InitEtc \/ InitYml
    /\ idx = 0
    /\ DOXY_DICT = <<>>
    /\ ABSTRACT_CLASSES = {}
    /\ cache = [doxygen_filename |-> <<>>, class_template_params |-> <<>>,
                is_abstract_class |-> <<>>]
    /\ opens = <<>>
    /\ builds = <<>>
    /\ out = <<>>
    /\ err = <<>>
    /\ type_ = <<>>
    /\ py = <<>>
    /\ trees = <<>>
    /\ context_default = <<>>
    /\ rst = <<>>
    /\ called = <<>>

\* __parse_args with no thing: argparse reports the usage and exits
ParseArgsError ==
    /\ pc = "start"
    /\ things = <<>>
    /\ pc' = "exit"
    /\ err' = Append(err, [error |-> "usage"])
    /\ UNCHANGED <<input, interp, call, idx, out>>

\* main up to its loop
MainBegin ==
    /\ pc = "start"
    /\ things # <<>>
    /\ pc' = "loop"
    /\ out' = out \o <<[print |-> "__COPYRIGHT"], [print |-> "__HEADERS"]>>
    /\ UNCHANGED <<input, interp, call, idx, err>>

\* the body of "for thing in args.things" for the thing and its
\* template_p = class_template_params(thing), c
MainPrint(thing, c) ==
    IF Len(c.ret) # 0 /\ template_header_raises(c.ret)
    THEN /\ pc' = "raised"
         /\ SetState(c.s)
         /\ UNCHANGED <<idx, out>>
    ELSE \E g \in {generate(c.s, thing)},
            header \in {IF Len(c.ret) # 0 THEN template_header(thing, c.ret)
                        ELSE [print |-> "non_template_header"]} :
            IF g.raised
            THEN \* the header is printed, and the exception ends main
                 /\ pc' = "raised"
                 /\ SetState([g.s EXCEPT
                                 !.err = Append(@, [error |-> "KeyError"])])
                 /\ out' = Append(out, header)
                 /\ UNCHANGED idx
            ELSE /\ pc' = "loop"
                 /\ idx' = idx + 1
                 /\ SetState(g.s)
                 /\ out' = out \o
                       <<header,
                         [print |-> "generate", thing |-> thing,
                          text |-> g.ret],
                         IF Len(c.ret) # 0
                         THEN [print |-> "__TEMPLATE_FOOTER"]
                         ELSE [print |-> "__NON_TEMPLATE_FOOTER"]>>

\* one iteration of "for thing in args.things"
MainThing ==
    /\ pc = "loop"
    /\ idx < Len(things)
    /\ MainPrint(things[idx + 1],
                 class_template_params(State, things[idx + 1]))
    /\ UNCHANGED <<input, call>>

\* main after its loop
MainEnd ==
    /\ pc = "loop"
    /\ idx = Len(things)
    /\ pc' = "done"
    /\ out' = Append(out, [print |-> "__FOOTER"])
    /\ err' = Append(err, [bold |-> "Current limitations"])
    /\ UNCHANGED <<input, interp, call, idx>>

Next ==
    \/ ParseArgsError \/ MainBegin \/ MainThing \/ MainEnd
    \/ YmlParseArgsError \/ YmlFile \/ YmlEnd

Spec == Init /\ [][Next]_vars

-----------------------------------------------------------------------------
(* Calls of single functions of the script, in any order: get_xml,
   is_abstract_class and is_namespace are functions of the module that keep
   what they found in the module-level dictionaries and caches. *)

T_Namespaces == <<"N","a","m","e","s","p","a","c","e","s">>

\* the scopes and members that are asked for
CalledThings == {T_Foo, T_Namespaces}

CalledOverloads == {<<<<"b","a","r">>, <<>>>>, <<<<"b","a","r">>, <<"i","n","t">>>>, <<<<"b","a","r">>, <<"l","o","n","g">>>>}

\* the files of these directories: those of SmallDocs, and a class with two
\* overloads of bar
CalledDocs ==
    SmallDocs \cup {[abstract |-> "no", templateparamlist |-> <<>>,
                     memberdef |-> <<M_bar_int, M_bar_str>>]}

\* directories in which the class file and the namespace file of Foo and the
\* class file of Namespaces exist or not
CalledDirectories ==
    {d \in UNION {[fs -> CalledDocs] :
                     fs \in SUBSET {Candidate(<<"c","l","a","s","s">>, T_Foo),
                                    Candidate(<<"n","a","m","e","s","p","a","c","e">>, T_Foo),
                                    Candidate(<<"c","l","a","s","s">>, T_Namespaces)}} :
        \A f \in DOMAIN d :
            f # Candidate(<<"c","l","a","s","s">>, T_Foo) => d[f].abstract = "no"}

InitCalls ==
    /\ files \in CalledDirectories
    /\ things = <<>> /\ yml = <<>>
    /\ pc = "calls"
    /\ idx = 0
    /\ DOXY_DICT = <<>>
    /\ ABSTRACT_CLASSES = {}
    /\ cache = [doxygen_filename |-> <<>>, class_template_params |-> <<>>,
                is_abstract_class |-> <<>>]
    /\ opens = <<>> /\ builds = <<>>
    /\ out = <<>> /\ err = <<>>
    /\ type_ = <<>> /\ py = <<>>
    /\ trees = <<>> /\ context_default = <<>> /\ rst = <<>>
    /\ called = <<>>

\* get_xml(thing)
CallGetXml ==
    /\ pc = "calls"
    /\ \E thing \in CalledThings :
           \E g \in {get_xml(State, thing)} :
               /\ SetState(g.s)
               /\ called' = <<[call |-> "get_xml", thing |-> thing,
                               raised |-> IF g.raised
                                          THEN "FileNotFoundError"
                                          ELSE "no"]>>
    /\ UNCHANGED <<input, pc, idx, out, type_, py, rendering>>

\* get_xml(thing, fn, params_t)
CallGetXmlOverload ==
    /\ pc = "calls"
    /\ \E thing \in CalledThings, o \in CalledOverloads :
           \E g \in {get_xml(State, thing)} :
               /\ SetState(g.s)
               /\ called' =
                      <<IF g.raised
                        THEN [call |-> "get_xml", thing |-> thing,
                              fn |-> o[1], params_t |-> o[2],
                              raised |-> "FileNotFoundError"]
                        ELSE IF NoOverload(g.s.DOXY_DICT, thing, o[1], o[2])
                        THEN [call |-> "get_xml", thing |-> thing,
                              fn |-> o[1], params_t |-> o[2],
                              raised |-> "KeyError"]
                        ELSE [call |-> "get_xml", thing |-> thing,
                              fn |-> o[1], params_t |-> o[2],
                              raised |-> "no",
                              ret |-> Overload(g.s.DOXY_DICT, thing,
                                               o[1], o[2])]>>
    /\ UNCHANGED <<input, pc, idx, out, type_, py, rendering>>

\* is_abstract_class(thing)
CallIsAbstractClass ==
    /\ pc = "calls"
    /\ \E thing \in CalledThings :
           \E r \in {is_abstract_class(State, thing)} :
               /\ SetState(r.s)
               /\ called' = <<[call |-> "is_abstract_class",
                               thing |-> thing, ret |-> r.ret]>>
    /\ UNCHANGED <<input, pc, idx, out, type_, py, rendering>>

\* is_namespace(thing)
CallIsNamespace ==
    /\ pc = "calls"
    /\ \E thing \in CalledThings :
           \E r \in {is_namespace(State, thing)} :
               /\ SetState(r.s)
               /\ called' = <<[call |-> "is_namespace",
                               thing |-> thing, ret |-> r.ret]>>
    /\ UNCHANGED <<input, pc, idx, out, type_, py, rendering>>

NextCalls ==
    CallGetXml \/ CallGetXmlOverload \/ CallIsAbstractClass
        \/ CallIsNamespace

SpecCalls == InitCalls /\ [][NextCalls]_vars

-----------------------------------------------------------------------------
(* doxygen_filename called for one scope name, in a directory that holds one
   file for that scope. *)

\* what scope names are built from: a lower-case letter, an upper-case
\* letter, an underscore, a digit and the separator
Tokens == {<<"a">>, <<"A">>, <<"_">>, <<"1">>, <<":",":">>}

\* number of tokens in a scope name
MaxTokens == 3

ScopeNames == {Join(<<>>, ts) : ts \in SeqsUpTo(Tokens, MaxTokens) \ {<<>>}}

\* the directories with one file, that of a class, a struct or a namespace
\* thing
ScopeDirectories(thing) ==
    {Candidate(Probe[i], thing) :> [abstract |-> "no",
                                    templateparamlist |-> <<>>,
                                    memberdef |-> <<M_bar_int>>] :
        i \in 1..Len(Probe)}

InitMangle ==
    /\ \E thing \in ScopeNames :
           /\ things = <<thing>>
           /\ files \in ScopeDirectories(thing)
    /\ yml = <<>>
    /\ pc = "mangle"
    /\ idx = 0
    /\ DOXY_DICT = <<>>
    /\ ABSTRACT_CLASSES = {}
    /\ cache = [doxygen_filename |-> <<>>, class_template_params |-> <<>>,
                is_abstract_class |-> <<>>]
    /\ opens = <<>> /\ builds = <<>>
    /\ out = <<>> /\ err = <<>>
    /\ type_ = <<>> /\ py = <<>>
    /\ trees = <<>> /\ context_default = <<>> /\ rst = <<>>
    /\ called = <<>>

\* doxygen_filename(thing)
CallDoxygenFilename ==
    /\ pc = "mangle"
    /\ \E r \in {doxygen_filename(State, things[1])} :
           /\ SetState(r.s)
           /\ called' = <<[call |-> "doxygen_filename",
                           thing |-> things[1], ret |-> r.ret]>>
    /\ pc' = "mangled"
    /\ UNCHANGED <<input, idx, out, type_, py, rendering>>

NextMangle == CallDoxygenFilename

SpecMangle == InitMangle /\ [][NextMangle]_vars

-----------------------------------------------------------------------------
(* What the properties below speak of *)

\* the positions of out that hold what a call of generate returned
Generated == {i \in 1..Len(out) : out[i].print = "generate"}

\* the file names of the three candidates of the two things, written out
ClassFileOf(thing) ==
    IF thing = T_Foo THEN <<"d","o","c","s","/","x","m","l","/","c","l","a","s","s","_","f","o","o",".","x","m","l">>
    ELSE IF thing = T_Namespaces THEN <<"d","o","c","s","/","x","m","l","/","c","l","a","s","s","_","n","a","m","e","s","p","a","c","e","s",".","x","m","l">>
    ELSE <<"d","o","c","s","/","x","m","l","/","c","l","a","s","s","l","i","b","s","e","m","i","g","r","o","u","p","s","_","1","_","1","_","b","_","_","r",".","x","m","l">>

StructFileOf(thing) ==
    IF thing = T_Foo THEN <<"d","o","c","s","/","x","m","l","/","s","t","r","u","c","t","_","f","o","o",".","x","m","l">>
    ELSE IF thing = T_Namespaces THEN <<"d","o","c","s","/","x","m","l","/","s","t","r","u","c","t","_","n","a","m","e","s","p","a","c","e","s",".","x","m","l">>
    ELSE <<"d","o","c","s","/","x","m","l","/","s","t","r","u","c","t","l","i","b","s","e","m","i","g","r","o","u","p","s","_","1","_","1","_","b","_","_","r",".","x","m","l">>

NamespaceFileOf(thing) ==
    IF thing = T_Foo THEN <<"d","o","c","s","/","x","m","l","/","n","a","m","e","s","p","a","c","e","_","f","o","o",".","x","m","l">>
    ELSE IF thing = T_Namespaces THEN <<"d","o","c","s","/","x","m","l","/","n","a","m","e","s","p","a","c","e","_","n","a","m","e","s","p","a","c","e","s",".","x","m","l">>
    ELSE <<"d","o","c","s","/","x","m","l","/","n","a","m","e","s","p","a","c","e","l","i","b","s","e","m","i","g","r","o","u","p","s","_","1","_","1","_","b","_","_","r",".","x","m","l">>

\* the file that describes thing: class before struct before namespace
SchemaFileOf(thing) ==
    IF ClassFileOf(thing) \in DOMAIN files THEN ClassFileOf(thing)
    ELSE IF StructFileOf(thing) \in DOMAIN files THEN StructFileOf(thing)
    ELSE IF NamespaceFileOf(thing) \in DOMAIN files THEN NamespaceFileOf(thing)
    ELSE <<>>

HasSchema(thing) == SchemaFileOf(thing) # <<>>

SchemaOf(thing) == files[SchemaFileOf(thing)]

IsNamespaceScope(thing) == SchemaFileOf(thing) = NamespaceFileOf(thing)

\* the statements that bind a member: all but the opening statement and the
\* default __repr__
BindingStmts == {"enum_", "init", "def", "def_static"}

StatementsFor(text, fn) ==
    {k \in 1..Len(text) : text[k].stmt \in BindingStmts /\ text[k].fn = fn}

\* the members of the schema with this name
Declared(doc, fn) == {j \in 1..Len(doc.memberdef) : doc.memberdef[j].name = fn}

\* public, not deleted and not matched by the skip predicate
Eligible(thing, x) ==
    /\ IsNamespaceScope(thing) \/ x.prot = "public"
    /\ ~Contains(x.argsstring, <<"=","d","e","l","e","t","e">>)
    /\ ~skip_fn_member(x.name, Signature(x), x)

\* the member that the schema index holds for the signature of member j: the
\* last one declared with that name and signature
Recorded(doc, j) ==
    LET same == {k \in 1..Len(doc.memberdef) :
                    /\ doc.memberdef[k].name = doc.memberdef[j].name
                    /\ Signature(doc.memberdef[k]) = Signature(doc.memberdef[j])}
    IN  CHOOSE k \in same : \A l \in same : l <= k

\* the member a statement was produced for
MemberOf(doc, st) ==
    LET same == {k \in 1..Len(doc.memberdef) :
                    /\ doc.memberdef[k].name = st.fn
                    /\ Signature(doc.memberdef[k]) = st.sig}
    IN  doc.memberdef[CHOOSE k \in same : \A l \in same : l <= k]

-----------------------------------------------------------------------------
(* C1 *)

-----------------------------------------------------------------------------
(* C2 *)

-----------------------------------------------------------------------------
(* C3 *)

\* C3: once __DOXY_DICT holds the mapping of a scope, no step builds it
\* again or changes it, whatever is asked for afterwards
CacheSingleAssignment ==
    [][\A thing \in DOMAIN DOXY_DICT :
          /\ thing \in DOMAIN DOXY_DICT'
          /\ DOXY_DICT'[thing] = DOXY_DICT[thing]
          /\ builds[thing] = 1
          /\ builds'[thing] = 1]_vars

\* the same entity was asked for twice and its mapping was built once
CacheSingleAssignmentWitness ==
    /\ Len(things) = 2
    /\ things[1] = things[2]
    /\ idx = 2
    /\ things[1] \in DOMAIN DOXY_DICT
    /\ builds[things[1]] = 1
    /\ DOXY_DICT[things[1]] # <<>>

-----------------------------------------------------------------------------
(* C4 *)

OpensOf(fname) == {k \in 1..Len(opens) : opens[k].fname = fname}

OpensBy(fname, by) == {k \in OpensOf(fname) : opens[k].by = by}

-----------------------------------------------------------------------------
(* C6 *)

\* C6: the file name that doxygen_filename returned for a scope is the
\* class candidate if that file exists, else the struct candidate if that
\* file exists, else the namespace candidate if that file exists, else the
\* empty string; the candidates carry the mangled name of the scope
ProbeOrder ==
    \A thing \in DOMAIN cache.doxygen_filename :
        cache.doxygen_filename[thing] = SchemaFileOf(thing)

\* a scope with a double colon, a capital and an underscore in its name, for
\* which a struct file and a namespace file exist
ProbeOrderWitness ==
    /\ T_ls_Bar \in DOMAIN cache.doxygen_filename
    /\ ClassFileOf(T_ls_Bar) \notin DOMAIN files
    /\ StructFileOf(T_ls_Bar) \in DOMAIN files
    /\ NamespaceFileOf(T_ls_Bar) \in DOMAIN files
    /\ cache.doxygen_filename[T_ls_Bar] = StructFileOf(T_ls_Bar)

-----------------------------------------------------------------------------
(* C7 *)

\* C7: what generate returns for a scope that its schema flags abstract has
\* no py::init statement
AbstractNoConstructor ==
    \A i \in Generated :
        (HasSchema(out[i].thing) /\ SchemaOf(out[i].thing).abstract = "yes")
            => \A k \in 1..Len(out[i].text) : out[i].text[k].stmt # "init"

\* an abstract class with two constructors was generated
AbstractNoConstructorWitness ==
    \E i \in Generated :
        /\ out[i].thing = T_Foo
        /\ SchemaFileOf(T_Foo) = ClassFileOf(T_Foo)
        /\ SchemaOf(T_Foo).abstract = "yes"
        /\ SchemaOf(T_Foo).memberdef = <<M_Foo, M_Foo_copy>>
        /\ Len(out[i].text) = 1

-----------------------------------------------------------------------------
(* C8 *)

IsBeginName(fn) == StartsWith(fn, <<"b","e","g","i","n">>) \/ StartsWith(fn, <<"c","b","e","g","i","n">>)

IsEndName(fn) == StartsWith(fn, <<"e","n","d">>) \/ StartsWith(fn, <<"c","e","n","d">>)

\* begin replaced by end in the name
EndNameOf(fn) == ReplaceAll(fn, 1, <<"b","e","g","i","n">>, <<"e","n","d">>)

\* self.fn(the names of the parameters of x)
SelfCall(fn, x) ==
    <<"s","e","l","f",".">> \o fn \o <<"(">>
        \o Join(<<","," ">>, [p \in 1..Len(x.param) |-> x.param[p].declname[1]])
        \o <<")">>

\* the statement is the adapter that combines the begin member x with its end
IsCombinedAdapter(st, x) ==
    /\ st.stmt \in {"def", "def_static"}
    /\ st.func.form = "lambda"
    /\ st.func.body.call = "py::make_iterator"
    /\ st.func.body.first = SelfCall(x.name, x)
    /\ st.func.body.second = SelfCall(EndNameOf(x.name), x)

NoEndStatement ==
    \A i \in Generated :
        \A k \in 1..Len(out[i].text) :
            out[i].text[k].stmt \in BindingStmts => ~IsEndName(out[i].text[k].fn)

-----------------------------------------------------------------------------
(* C9 *)

\* C9: a public member of kind enum that generate hands to pybind11_fn gets
\* one statement, the py::enum_ statement with its values and with no
\* callable, also when other members share its name
EnumBypass ==
    \A i \in Generated :
        HasSchema(out[i].thing) =>
            LET thing == out[i].thing
                doc == SchemaOf(thing)
                text == out[i].text
            IN  \A j \in 1..Len(doc.memberdef) :
                    LET x == doc.memberdef[j]
                        mine == {k \in StatementsFor(text, x.name) :
                                    text[k].sig = Signature(x)}
                    IN  (x.kind = "enum" /\ Recorded(doc, j) = j
                         /\ Eligible(thing, x))
                        => \E k \in mine :
                               /\ mine = {k}
                               /\ text[k].stmt = "enum_"
                               /\ "func" \notin DOMAIN text[k]
                               /\ Len(text[k].value) = Len(x.enumvalue)

\* an enum that shares its name with a function, bound as an enum
EnumBypassWitness ==
    \E i \in Generated :
        /\ out[i].thing = T_Foo
        /\ SchemaFileOf(T_Foo) = ClassFileOf(T_Foo)
        /\ SchemaOf(T_Foo).memberdef = <<M_enum_bar, M_bar_int>>
        /\ \E k \in 1..Len(out[i].text) :
               /\ out[i].text[k].stmt = "enum_"
               /\ out[i].text[k].py_name = <<"F","o","o","_","_","b","a","r">>

-----------------------------------------------------------------------------
(* C10 *)

\* the positions of out that hold what generate of
\* python/generate_pybind11.py returned
YmlGenerated == {i \in 1..Len(out) : out[i].print = "yml_generate"}

\* the file python/generate_pybind11.py reads for the class Foo
YmlSchemaOf(class_n) ==
    IF <<"d","o","c","s","/","x","m","l","/","c","l","a","s","s","_","f","o","o",".","x","m","l">> \in DOMAIN files
    THEN files[<<"d","o","c","s","/","x","m","l","/","c","l","a","s","s","_","f","o","o",".","x","m","l">>]
    ELSE files[<<"d","o","c","s","/","x","m","l","/","s","t","r","u","c","t","_","f","o","o",".","x","m","l">>]

\* the number of overloads of fn that the schema index records
RecordedOverloads(doc, fn) ==
    Cardinality({Signature(doc.memberdef[j]) : j \in Declared(doc, fn)})

\* the statements that bind a callable
DefStmts == {"def", "def_static"}

DefsOf(text) == {k \in 1..Len(text) : text[k].stmt \in DefStmts}

HookNames == {<<"r","u","n","_","f","o","r">>, <<"r","u","n","_","u","n","t","i","l">>, <<"r","e","p","o","r","t","_","e","v","e","r","y">>}

\* the hook expressions for the scope Foo
HookOfFoo(fn) ==
    CASE fn = <<"r","u","n","_","f","o","r">> ->
           <<"(","v","o","i","d"," ","(","F","o","o",":",":","*",")","(","s","t","d",":",":","c","h","r","o","n","o",":",":","n","a","n","o","s","e","c","o","n","d","s",")",")","&"," ","R","u","n","n","e","r",":",":","r","u","n","_","f","o","r">>
      [] fn = <<"r","u","n","_","u","n","t","i","l">> ->
           <<"(","v","o","i","d"," ","(","F","o","o",":",":","*",")","(","s","t","d",":",":","f","u","n","c","t","i","o","n","<","b","o","o","l","(",")",">"," ","&",")",")"," ","&"," ","R","u","n","n","e","r",":",":","r","u","n","_","u","n","t","i","l">>
      [] fn = <<"r","e","p","o","r","t","_","e","v","e","r","y">> ->
           <<"(","v","o","i","d"," ","(","F","o","o",":",":","*",")","(","s","t","d",":",":","c","h","r","o","n","o",":",":","n","a","n","o","s","e","c","o","n","d","s",")",")"," ","&"," ","R","u","n","n","e","r",":",":","r","e","p","o","r","t","_","e","v","e","r","y">>

IsConstructorName(thing, fn) ==
    IF thing = T_Foo THEN StartsWith(fn, <<"F","o","o">>) ELSE StartsWith(fn, <<"B","_","r">>)

IsOperatorName(fn) == StartsWith(fn, <<"o","p","e","r","a","t","o","r">>) \/ fn \in {<<"a","t">>, <<"h","a","s","h","_","v","a","l","u","e">>}

\* the name by which the statements of etc/generate_pybind11.py call the
\* scope
AliasOf(thing) ==
    (IF thing = T_Foo THEN <<"F","o","o">> ELSE <<"B","_","r">>)
        \o (IF ~IsNamespaceScope(thing)
                /\ SchemaOf(thing).templateparamlist # <<>>
            THEN <<"_">> ELSE <<>>)

\* the yml entries that name the one recorded overload x
EntriesNaming(y, x) ==
    {e \in 1..Len(y.section[1]) :
        LET p == extract_func_params_t(y.section[1][e])
        IN  p[1] = x.name /\ p[2] \in {<<>>, Signature(x)}}

\* the doc a position of out was generated from
DocAt(i) ==
    IF out[i].print = "generate" THEN SchemaOf(out[i].thing)
    ELSE YmlSchemaOf(out[i].thing)

\* how many statements an output holds for a member with one recorded
\* overload when every request to bind it yields exactly one: one in
\* etc/generate_pybind11.py, where the schema index is the request, and one
\* for each entry that names it in the script that a yml file drives
Requested(i, fn) ==
    IF out[i].print = "generate" THEN 1
    ELSE Cardinality(EntriesNaming(
             yml[CHOOSE f \in 1..Len(yml) : yml[f].class_n = out[i].thing],
             DocAt(i).memberdef[CHOOSE j \in Declared(DocAt(i), fn) : TRUE]))

\* C10 as stated: of both scripts, a non-constructor member named in the
\* hook table gets the hook expression for the scope whatever its overload
\* count, else one with more than one recorded overload a disambiguating
\* form, else the plain reference &Scope::name and exactly one statement;
\* no constructor gets any of these
StrategyAsStated ==
    \A i \in Generated \cup YmlGenerated :
        \A k \in DefsOf(out[i].text) :
            LET st == out[i].text[k]
                thing == out[i].thing
                n == RecordedOverloads(DocAt(i), st.fn)
            IN  /\ ~IsConstructorName(thing, st.fn)
                /\ IF st.fn \in HookNames
                   THEN st.func.form = "exceptional"
                   ELSE IF n > 1
                   THEN st.func.form \in {"overload_cast", "lambda"}
                   ELSE /\ st.func.form = "reference"
                        /\ Cardinality(StatementsFor(out[i].text, st.fn)) =
                               Requested(i, st.fn)

\* what python/generate_pybind11.py selects
YmlStrategy ==
    \A i \in YmlGenerated :
        \A k \in DefsOf(out[i].text) :
            LET st == out[i].text[k]
                thing == out[i].thing
                doc == YmlSchemaOf(thing)
                n == RecordedOverloads(doc, st.fn)
            IN  /\ ~IsConstructorName(thing, st.fn)
                /\ IF st.fn \in HookNames
                   THEN st.func = [form |-> "exceptional",
                                   text |-> HookOfFoo(st.fn)]
                   ELSE IF n > 1
                   THEN /\ st.func.form = "overload_cast"
                        /\ StartsWith(st.func.text,
                                      <<"p","y",":",":","o","v","e","r","l","o","a","d","_","c","a","s","t","<">> \o st.sig
                                          \o <<">","(","&","F","o","o",":",":">> \o st.fn)
                   ELSE /\ st.func = [form |-> "reference",
                                      text |-> <<"&","F","o","o",":",":">> \o st.fn]
                        /\ Cardinality(StatementsFor(out[i].text, st.fn)) =
                               Requested(i, st.fn)

\* what etc/generate_pybind11.py selects
EtcStrategy ==
    \A i \in Generated :
        \A k \in DefsOf(out[i].text) :
            LET st == out[i].text[k]
                thing == out[i].thing
                n == RecordedOverloads(SchemaOf(thing), st.fn)
            IN  /\ ~IsConstructorName(thing, st.fn)
                /\ n = 1 =>
                       Cardinality(StatementsFor(out[i].text, st.fn)) = 1
                /\ IF n > 1 \/ IsBeginName(st.fn)
                   THEN st.func.form = "lambda"
                   ELSE IF IsOperatorName(st.fn)
                   THEN st.func.form = "operator"
                   ELSE st.func = [form |-> "reference",
                                   text |-> <<"&">> \o AliasOf(thing) \o <<":",":">>
                                                \o st.fn]

\* C10, amended: selection is first-match in a fixed order, and the order
\* depends on the script.  In python/generate_pybind11.py a non-constructor
\* member named in the hook table gets the hook expression for the scope
\* whatever its overload count, else one with more than one recorded
\* overload gets py::overload_cast, else it gets &Scope::name, once for each
\* yml entry that names it.  In etc/generate_pybind11.py, which has no hook
\* table, a member with more than one recorded overload or named
\* begin.../cbegin... gets a lambda, else an operator gets the operator
\* expression, else it gets &Scope::name (Scope_ for a class template); a
\* member with one recorded overload gets exactly one statement.  In both,
\* no constructor gets any of these.
Strategy == YmlStrategy /\ EtcStrategy

\* python/generate_pybind11.py bound run_for, of which the schema records two
\* overloads, by the hook expression
StrategyWitness ==
    \E i \in YmlGenerated :
        \E k \in DefsOf(out[i].text) :
            /\ out[i].text[k].fn = <<"r","u","n","_","f","o","r">>
            /\ out[i].text[k].func.form = "exceptional"
            /\ YmlSchemaOf(out[i].thing).memberdef = <<M_run_for, M_run_for_int>>

-----------------------------------------------------------------------------
(* C11 *)

\* a declared parameter as the adapter would list it: its type, and its
\* name if it has one
DeclaredParam(p) ==
    p.type \o (IF p.declname # <<>> THEN <<" ">> \o p.declname[1] ELSE <<>>)

\* the parameter list "self, declared parameters" for the member x of a
\* class or struct
DeclaredAdapterSig(cls, x) ==
    Join(<<","," ">>, <<cls \o (IF x.const = "yes" THEN <<" ","c","o","n","s","t","&"," ","s","e","l","f">>
                         ELSE <<"&"," ","s","e","l","f">>)>>
                 \o [p \in 1..Len(x.param) |-> DeclaredParam(x.param[p])])

\* the statements that are adapters forwarding to an overloaded member
ForwardingAdapters(text) ==
    {k \in 1..Len(text) :
        /\ text[k].stmt \in {"def", "def_static"}
        /\ text[k].func.form = "lambda"
        /\ text[k].func.body.call = "member"}

\* C11 as stated: in a class or struct, the adapter of every overload of an
\* overloaded member lists self (const iff the overload is const) and then
\* the declared parameters of that overload, each with its type and in
\* order, and two adapters of one member for different signatures have
\* different parameter lists
AdapterForwarding ==
    \A i \in Generated :
        (HasSchema(out[i].thing) /\ ~IsNamespaceScope(out[i].thing)) =>
            LET thing == out[i].thing
                text == out[i].text
                doc == SchemaOf(thing)
            IN  /\ \A k \in ForwardingAdapters(text) :
                       text[k].func.sig =
                           DeclaredAdapterSig(AliasOf(thing),
                                              MemberOf(doc, text[k]))
                /\ \A k, l \in ForwardingAdapters(text) :
                       (text[k].fn = text[l].fn /\ text[k].sig # text[l].sig)
                           => text[k].func.sig # text[l].func.sig

-----------------------------------------------------------------------------
(* C12 *)

\* two members of the schema have one name and one signature
AmbiguousIn(doc) ==
    \E j, k \in 1..Len(doc.memberdef) :
        /\ j # k
        /\ doc.memberdef[j].name = doc.memberdef[k].name
        /\ Signature(doc.memberdef[j]) = Signature(doc.memberdef[k])

\* the messages that __error wrote about thing
ErrorsAbout(thing) ==
    {e \in 1..Len(err) :
        /\ DOMAIN err[e] = {"error", "thing"}
        /\ err[e].thing = thing}

\* C12 as stated: when the schema of a scope holds two members with the same
\* name and the same signature, building its index writes a diagnostic about
\* the scope
AmbiguousOverloadFlagged ==
    \A i \in Generated :
        (HasSchema(out[i].thing) /\ AmbiguousIn(SchemaOf(out[i].thing)))
            => ErrorsAbout(out[i].thing) # {}

-----------------------------------------------------------------------------
(* C13 *)

\* python/generate_pybind11.py finds a file that it can open for class_n
YmlHasSchema(class_n) ==
    \/ ClassFileOf(class_n) \in DOMAIN files
    \/ /\ Tail(Tail(Tail(Tail(Tail(StructFileOf(class_n)))))) \in DOMAIN files
       /\ StructFileOf(class_n) \in DOMAIN files

-----------------------------------------------------------------------------
(* C14 *)

\* what main prints before and after what generate returned
OpeningPrints == {"template_header", "non_template_header"}

ClosingPrints == {"__TEMPLATE_FOOTER", "__NON_TEMPLATE_FOOTER"}

\* every requested entity has its place in the output, in the order asked
AllProcessed ==
    pc = "done" =>
        \A k \in 1..Len(things) :
            /\ out[3 * k + 1].print = "generate"
            /\ out[3 * k + 1].thing = things[k]

\* C14 as stated: for a requested entity with no schema file a warning is
\* written, the output has nothing for the entity, neither an opening nor a
\* member nor a closing statement, and the entities after it are processed
MissingSchemaOutputAsStated ==
    /\ \A i \in Generated :
           ~HasSchema(out[i].thing) =>
               /\ ErrorsAbout(out[i].thing) # {}
               /\ out[i].text = <<>>
               /\ out[i - 1].print \notin OpeningPrints
               /\ i < Len(out) => out[i + 1].print \notin ClosingPrints
    /\ AllProcessed

\* C14 amended: for a requested entity with no schema file a warning is
\* written and generate returns the empty text (no opening, member or
\* __repr__ statement), but main prints the non-template header before it
\* and the non-template footer after it; the entity does not end the run,
\* and a run that reaches its end has processed every entity
MissingSchemaOutput ==
    /\ \A i \in Generated :
           ~HasSchema(out[i].thing) =>
               /\ ErrorsAbout(out[i].thing) # {}
               /\ out[i].text = <<>>
               /\ out[i - 1] = [print |-> "non_template_header"]
               /\ out[i + 1] = [print |-> "__NON_TEMPLATE_FOOTER"]
    /\ (pc = "raised" /\ things # <<>>) => HasSchema(things[idx + 1])
    /\ AllProcessed

\* B_r has no file and Foo, asked for after it, got its statements
MissingSchemaOutputWitness ==
    /\ pc = "done"
    /\ things = <<T_ls_Bar, T_Foo>>
    /\ ~HasSchema(T_ls_Bar)
    /\ out[4].text = <<>>
    /\ out[7].thing = T_Foo
    /\ Len(out[7].text) > 1

-----------------------------------------------------------------------------
(* C15 *)

\* the <<name, signature>> pairs that the entries of a yml file ask for
EntryPairs(y) ==
    IF y.section = <<>> THEN <<>>
    ELSE [e \in 1..Len(y.section[1]) |->
             extract_func_params_t(y.section[1][e])]

\* the schema index built from doc has a member for the pair p; the empty
\* signature also stands for the only overload of a name
RecordedPair(doc, p) ==
    \E j \in 1..Len(doc.memberdef) :
        /\ doc.memberdef[j].name = p[1]
        /\ \/ Signature(doc.memberdef[j]) = p[2]
           \/ p[2] = <<>> /\ RecordedOverloads(doc, p[1]) = 1

\* the member that the schema index built from doc holds for the pair p
PairMember(doc, p) ==
    LET same == {j \in 1..Len(doc.memberdef) :
                    /\ doc.memberdef[j].name = p[1]
                    /\ \/ Signature(doc.memberdef[j]) = p[2]
                       \/ p[2] = <<>> /\ RecordedOverloads(doc, p[1]) = 1}
    IN  doc.memberdef[CHOOSE j \in same : \A l \in same : l <= j]

\* the statements of text for the pair p
PairStatements(text, p) ==
    {k \in 1..Len(text) :
        /\ text[k].stmt \in BindingStmts
        /\ text[k].fn = p[1]
        /\ text[k].sig = p[2]}

\* a recorded pair that python/generate_pybind11.py binds: no operator, not
\* deleted, no member template
YmlBound(doc, p) ==
    /\ RecordedPair(doc, p)
    /\ ~StartsWith(p[1], <<"o","p","e","r","a","t","o","r">>)
    /\ ~Contains(PairMember(doc, p).argsstring, <<"=","d","e","l","e","t","e">>)
    /\ PairMember(doc, p).templateparamlist = <<>>

\* the pairs that are asked for and not recorded have no statement, and
\* the pairs that are asked for, recorded and bound have one
OnlyMissingSkipped(i) ==
    LET doc == YmlSchemaOf(out[i].thing)
        pairs == EntryPairs(yml[i])
    IN  \A e \in 1..Len(pairs) :
            /\ ~RecordedPair(doc, pairs[e])
                   => PairStatements(out[i].text, pairs[e]) = {}
            /\ YmlBound(doc, pairs[e])
                   => PairStatements(out[i].text, pairs[e]) # {}

SomeMissing(i) ==
    \E e \in 1..Len(EntryPairs(yml[i])) :
        ~RecordedPair(YmlSchemaOf(out[i].thing), EntryPairs(yml[i])[e])

-----------------------------------------------------------------------------
(* C16 *)

\* a member record of the schema lacks the static attribute
MalformedDoc(doc) ==
    \E j \in 1..Len(doc.memberdef) : doc.memberdef[j].static = NoAttr

\* C16 as stated: a run of main over several entities does not end at an
\* entity because the schema of the entity is malformed, and a run that
\* reaches its end has processed every entity
MalformedSchemaLocal ==
    /\ (pc = "raised" /\ Len(things) > 1 /\ HasSchema(things[idx + 1]))
           => ~MalformedDoc(SchemaOf(things[idx + 1]))
    /\ AllProcessed

-----------------------------------------------------------------------------
(* C17 *)

BindingPositions(text) == {k \in 1..Len(text) : text[k].stmt \in BindingStmts}

\* where the schema declares the member that the statement st binds
DeclaredAt(doc, st) ==
    LET same == {k \in 1..Len(doc.memberdef) :
                    /\ doc.memberdef[k].name = st.fn
                    /\ Signature(doc.memberdef[k]) = st.sig}
    IN  CHOOSE k \in same : \A l \in same : l <= k

\* where the schema first declares a member with the name of st
NameFirstAt(doc, st) ==
    LET same == {k \in 1..Len(doc.memberdef) : doc.memberdef[k].name = st.fn}
    IN  CHOOSE k \in same : \A l \in same : k <= l

\* where the schema first declares a member with the name and the signature
\* of st
SignatureFirstAt(doc, st) ==
    LET same == {k \in 1..Len(doc.memberdef) :
                    /\ doc.memberdef[k].name = st.fn
                    /\ Signature(doc.memberdef[k]) = st.sig}
    IN  CHOOSE k \in same : \A l \in same : k <= l

\* the first statement is the opening statement, and no other is
OpeningFirst(text) ==
    /\ text[1].stmt \in {"class_", "m"}
    /\ \A k \in 2..Len(text) : text[k].stmt \notin {"class_", "m"}

\* C17 as stated: the member statements of generate(scope) come after the
\* opening statement and in the order in which the schema declares the
\* members that they bind
DeclarationOrderAsStated ==
    \A i \in Generated :
        HasSchema(out[i].thing) =>
            LET text == out[i].text
                doc == SchemaOf(out[i].thing)
            IN  /\ OpeningFirst(text)
                /\ \A k, l \in BindingPositions(text) :
                       k < l => DeclaredAt(doc, text[k])
                                    < DeclaredAt(doc, text[l])

\* C17 amended: the member statements of generate(scope) come after the
\* opening statement, grouped by name: the names in the order of their first
\* declaration in the schema, and the statements of one name in the order of
\* the first declaration of their signatures
DeclarationOrder ==
    \A i \in Generated :
        HasSchema(out[i].thing) =>
            LET text == out[i].text
                doc == SchemaOf(out[i].thing)
            IN  /\ OpeningFirst(text)
                /\ \A k, l \in BindingPositions(text) :
                       k < l =>
                           \/ NameFirstAt(doc, text[k])
                                  < NameFirstAt(doc, text[l])
                           \/ /\ text[k].fn = text[l].fn
                              /\ SignatureFirstAt(doc, text[k])
                                     < SignatureFirstAt(doc, text[l])

\* run_for is declared between two overloads of bar and bound after both
DeclarationOrderWitness ==
    \E i \in Generated :
        /\ out[i].thing = T_Foo
        /\ SchemaOf(T_Foo).memberdef = <<M_bar_int, M_run_for, M_bar_str>>
        /\ SchemaOf(T_Foo).abstract = "no"
        /\ Len(out[i].text) = 5
        /\ out[i].text[3].sig = <<"i","n","t">>
        /\ out[i].text[4].sig = <<"s","t","d",":",":","s","t","r","i","n","g"," ","c","o","n","s","t"," ","&">>
        /\ out[i].text[5].fn = <<"r","u","n","_","f","o","r">>

-----------------------------------------------------------------------------
(* Claims about convert_to_rst *)

\* C18: every text that convert_to_rst returned in a run is the text it
\* returns for that tree at the start of a run, so that a tree rendered
\* twice in a run gave the same text both times, whatever was rendered
\* before it
RenderDeterministic ==
    \A i \in 1..Len(rst) :
        /\ rst[i] = convert_to_rst(trees[i], <<>>).ret
        /\ \A j \in 1..Len(rst) : trees[j] = trees[i] => rst[j] = rst[i]

\* the <memberdef> of a function was rendered before and after that of an
\* enum
RenderDeterministicWitness ==
    /\ pc = "rendered"
    /\ trees = <<D_function, D_enum, D_function>>
    /\ Len(rst) = 3
    /\ rst[1] = NL \o NL \o <<"R","u","n","s",".">>

\* the tags that the loop of convert_to_rst has a branch for
Recognised ==
    {NoTag, "name", "enumvalue", "briefdescription", "detaileddescription",
     "templateparamlist", "computeroutput", "formula", "title", "para",
     "simplesect", "parameterlist", "ref", "emphasis", "bold",
     "compoundname", "ulink", "itemizedlist", "listitem", "programlisting",
     "codeline", "highlight", "sp"}

\* the elements of the tree x, x among them
RECURSIVE Elements(_)
Elements(x) ==
    IF x.tag = NoTag THEN {}
    ELSE {x} \cup UNION {Elements(x.children[k]) : k \in 1..Len(x.children)}

\* the elements below the root of the tree x whose tag is not recognised
Unrecognised(x) == {n \in Elements(x) \ {x} : n.tag \notin Recognised}

\* C19: rendering a tree that has an element with a tag convert_to_rst does
\* not recognise raises no exception, and the text of that element is part
\* of the text returned
BestEffortRendering ==
    /\ \A i \in 1..Len(rst) :
           \A n \in Unrecognised(trees[i]) : Contains(rst[i], TextOf(n))
    /\ pc = "raised" => Unrecognised(trees[idx + 1]) = {}

-----------------------------------------------------------------------------
(* C22 *)

\* the elements of the tree x, each with the context that a walk from x,
\* begun with this context, has on arriving at it
RECURSIVE Arrivals(_, _)
Arrivals(x, context) ==
    IF x.tag = NoTag THEN {}
    ELSE {<<x, context>>}
             \cup UNION {Arrivals(x.children[k], RstEnter(x, context)) :
                            k \in 1..Len(x.children)}

\* a call of convert_to_rst on x that returns leaves the context as it was
Restores(x, context) ==
    \/ convert_to_rst(x, context).raised
    \/ convert_to_rst(x, context).context = context

\* C22: the context is empty between the calls that pybind11_doc makes, and
\* a call of convert_to_rst on any element of a tree, with the tags of the
\* ancestors of the element as context, returns with that context
ContextBalanced ==
    /\ pc \in {"render", "rendered"} => context_default = <<>>
    /\ \A i \in 1..Len(rst) :
           \A a \in Arrivals(trees[i], <<>>) : Restores(a[1], a[2])

\* an enum, whose call appends two words, and a list in a paragraph were
\* rendered
ContextBalancedWitness ==
    /\ pc = "rendered"
    /\ trees = <<D_enum, D_list>>
    /\ Len(rst) = 2
    /\ context_default = <<>>
    /\ <<D_enum.children[3], <<"memberdef", "enum">>>>
           \in Arrivals(D_enum, <<>>)

-----------------------------------------------------------------------------
(* C23 *)

\* number of spaces of text from position p on
RECURSIVE SpacesAt(_, _)
SpacesAt(text, p) ==
    IF p <= Len(text) /\ text[p] = " " THEN 1 + SpacesAt(text, p + 1) ELSE 0

\* the indentations of the lines of text that begin with a bullet, from
\* position p on
RECURSIVE BulletIndents(_, _)
BulletIndents(text, p) ==
    IF p > Len(text) THEN <<>>
    ELSE (IF text[p] = "\n"
              /\ MatchAt(text, p + 1 + SpacesAt(text, p + 1), <<"*"," ">>)
          THEN <<SpacesAt(text, p + 1)>> ELSE <<>>)
             \o BulletIndents(text, p + 1)

\* number of <itemizedlist> elements among the ancestors
ListDepth(context) == Len(SelectSeq(context, LAMBDA t : t = "itemizedlist"))

\* the nesting depths of the items of the itemized lists of x, in document
\* order
RECURSIVE ItemDepths(_, _)
RECURSIVE ItemDepthsIn(_, _)
ItemDepths(x, context) ==
    IF x.tag = NoTag THEN <<>>
    ELSE (IF x.tag = "listitem" /\ context # <<>>
                 /\ context[Len(context)] = "itemizedlist"
          THEN <<ListDepth(context)>> ELSE <<>>)
             \o ItemDepthsIn(x.children, RstEnter(x, context))

ItemDepthsIn(list, context) ==
    IF list = <<>> THEN <<>>
    ELSE ItemDepths(Head(list), context) \o ItemDepthsIn(Tail(list), context)

\* the numbers of spaces that can be the unit of indentation
IndentUnits == 1..4

\* C23: in what convert_to_rst returns for a tree, every list item has a
\* line that begins with a bullet, the bullet of an item nested k levels
\* deep in itemized lists is indented by k times a fixed unit (counting
\* from the outermost list), and the text of an itemized list ends with an
\* empty line
ListLayout ==
    \A i \in 1..Len(rst) :
        LET indent == BulletIndents(rst[i], 1)
            depth == ItemDepths(trees[i], <<>>)
        IN  /\ Len(indent) = Len(depth)
            /\ \E unit \in IndentUnits :
                   \A j \in 1..Len(depth) :
                       j <= Len(indent) =>
                           indent[j] = unit * (depth[j] - 1)
            /\ \A a \in Arrivals(trees[i], <<>>) :
                   a[1].tag = "itemizedlist" =>
                       EndsWith(convert_to_rst(a[1], a[2]).ret, NL \o NL)

-----------------------------------------------------------------------------
(* C20 *)

\* the statements of text produced for the member x
StatementsOf(text, x) ==
    {k \in StatementsFor(text, x.name) : text[k].sig = Signature(x)}

\* text has exactly one statement for x, and it is a stmt statement
OneStatement(text, x, stmts) ==
    \E k \in StatementsOf(text, x) :
        StatementsOf(text, x) = {k} /\ text[k].stmt \in stmts

\* the scope is flagged abstract by its schema
AbstractScope(thing) == SchemaOf(thing).abstract = "yes"

\* C20 as stated: the name is looked at before the kind, so that a public
\* member whose name begins with the unqualified name of the scope is bound
\* as a constructor, also when its kind is enum
ConstructorFirstAsStated ==
    \A i \in Generated :
        HasSchema(out[i].thing) =>
            LET thing == out[i].thing
                doc == SchemaOf(thing)
            IN  \A j \in 1..Len(doc.memberdef) :
                    LET x == doc.memberdef[j]
                    IN  (Recorded(doc, j) = j /\ Eligible(thing, x)
                         /\ is_constructor(thing, x.name)
                         /\ ~AbstractScope(thing))
                        => OneStatement(out[i].text, x, {"init"})

\* C20 amended: the kind is looked at before the name: a typedef has no
\* statement, a public enum is bound as an enum, and only then is a member
\* whose name begins with the unqualified name of the scope bound as a
\* constructor (not at all in an abstract scope); every other member that
\* is public, not deleted and not matched by the skip predicate is bound by
\* a def or def_static statement
KindBeforeName ==
    \A i \in Generated :
        HasSchema(out[i].thing) =>
            LET thing == out[i].thing
                doc == SchemaOf(thing)
                text == out[i].text
            IN  \A j \in 1..Len(doc.memberdef) :
                    LET x == doc.memberdef[j]
                    IN  Recorded(doc, j) = j =>
                        IF x.kind = "typedef" \/ ~Eligible(thing, x)
                        THEN StatementsOf(text, x) = {}
                        ELSE IF x.kind = "enum"
                        THEN OneStatement(text, x, {"enum_"})
                        ELSE IF is_constructor(thing, x.name)
                        THEN IF AbstractScope(thing)
                             THEN StatementsOf(text, x) = {}
                             ELSE OneStatement(text, x, {"init"})
                        ELSE OneStatement(text, x, {"def", "def_static"})

\* the class Foo with a constructor and the public enum Foo_kind: one is
\* bound by py::init, the other by py::enum_
KindBeforeNameWitness ==
    \E i \in Generated :
        /\ out[i].thing = T_Foo
        /\ SchemaFileOf(T_Foo) = ClassFileOf(T_Foo)
        /\ SchemaOf(T_Foo).memberdef = <<M_Foo, M_enum_Foo_kind>>
        /\ ~AbstractScope(T_Foo)
        /\ OneStatement(out[i].text, M_Foo, {"init"})
        /\ OneStatement(out[i].text, M_enum_Foo_kind, {"enum_"})

-----------------------------------------------------------------------------
(* C21 *)

\* the exact-match table: exception types and integral aliases
ExactTable ==
    (<<"s","t","d",":",":","o","u","t","_","o","f","_","r","a","n","g","e">> :> <<"I","n","d","e","x","E","r","r","o","r">>)
        @@ (<<"s","t","d",":",":","b","a","d","_","a","l","l","o","c">> :> <<"M","e","m","o","r","y","E","r","r","o","r">>)
        @@ (<<"s","t","d",":",":","l","e","n","g","t","h","_","e","r","r","o","r">> :> <<"V","a","l","u","e","E","r","r","o","r">>)
        @@ (<<"L","i","b","s","e","m","i","g","r","o","u","p","s","E","x","c","e","p","t","i","o","n">> :> <<"L","i","b","s","e","m","i","g","r","o","u","p","s","E","r","r","o","r">>)
        @@ (<<"s","i","z","e","_","t">> :> <<"i","n","t">>) @@ (<<"u","i","n","t","3","2","_","t">> :> <<"i","n","t">>)
        @@ (<<"s","i","z","e","_","t","y","p","e">> :> <<"i","n","t">>) @@ (<<"u","i","n","t","6","4","_","t">> :> <<"i","n","t">>)

\* the literal keywords
KeywordTable ==
    (<<"t","h","i","s">> :> <<"s","e","l","f">>) @@ (<<"*","t","h","i","s">> :> <<"s","e","l","f">>) @@ (<<"t","r","u","e">> :> <<"T","r","u","e">>)
        @@ (<<"f","a","l","s","e">> :> <<"F","a","l","s","e">>) @@ (<<"v","o","i","d">> :> <<"N","o","n","e">>)

\* without the whole words const, the reference marks, the template
\* arguments and the white space around
Bare(t) == Strip(SubAngles(SubAmp(SubConst(t, 1)), 1))

\* the bare container or iterator name, if there is one
Collapse(g) ==
    IF g = <<"s","t","d",":",":","v","e","c","t","o","r">> THEN <<"l","i","s","t">>
    ELSE IF Contains(g, <<"i","t","e","r","a","t","o","r">>) THEN <<"I","t","e","r","a","t","o","r">> ELSE g

\* the translator that looks the type expression up as it is given, in the
\* exact-match table and then among the keywords, before anything is removed
\* from it
TableFirst(t) ==
    IF t \in DOMAIN ExactTable THEN ExactTable[t]
    ELSE IF t \in DOMAIN KeywordTable THEN KeywordTable[t]
    ELSE IF SubAmp(SubConst(t, 1)) = <<"s","t","d",":",":","v","e","c","t","o","r","<","u","i","n","t","8","_","t",">">> THEN <<"l","i","s","t","[","i","n","t","]">>
    ELSE Collapse(Bare(t))

\* the translator that removes const and the reference marks first, and
\* looks up what is left: std::vector<uint8_t> before the template arguments
\* are removed, the two tables after
StripFirst(t) ==
    IF SubAmp(SubConst(t, 1)) = <<"s","t","d",":",":","v","e","c","t","o","r","<","u","i","n","t","8","_","t",">">> THEN <<"l","i","s","t","[","i","n","t","]">>
    ELSE Only({IF b \in DOMAIN ExactTable THEN ExactTable[b]
               ELSE IF b \in DOMAIN KeywordTable THEN KeywordTable[b]
               ELSE Collapse(b) : b \in {Bare(t)}})

\* C21 as stated: the result of translate_cpp_to_py is that of the
\* translator that consults the exact-match table and the keywords on the
\* type expression before const, reference marks and template arguments are
\* removed
TableFirstAsStated == pc # "translate" => py[1] = TableFirst(type_)

\* C21 amended: the result of translate_cpp_to_py is that of the translator
\* that removes const and the reference marks, then matches
\* std::vector<uint8_t>, then removes template arguments and surrounding
\* white space, and only then consults the exact-match table, the keywords
\* and the container and iterator rules
StripBeforeTable == pc = "translate_again" => py[1] = StripFirst(type_)

\* an integral alias with const and a reference mark was translated, and so
\* was the vector whose template argument decides the result
StripBeforeTableWitness ==
    /\ pc = "translate_again"
    /\ type_ \in {<<"s","i","z","e","_","t"," ","c","o","n","s","t","&">>, <<"s","t","d",":",":","v","e","c","t","o","r","<","u","i","n","t","8","_","t",">">>}
    /\ py[1] \in {<<"i","n","t">>, <<"l","i","s","t","[","i","n","t","]">>}

-----------------------------------------------------------------------------
(* C24 *)

\* the types of the ordinary parameters of the member x, comma-joined
OrdinarySignature(x) == Join(<<",">>, StrippedTypes(x.param))

\* C24: every member that get_xml recorded in __DOXY_DICT is recorded under
\* the comma-joined types of its ordinary parameters, all of them and
\* nothing else
SignatureOfOrdinaryParams ==
    \A thing \in DOMAIN DOXY_DICT :
        \A f \in 1..Len(DOXY_DICT[thing]) :
            \A e \in 1..Len(DOXY_DICT[thing][f].val) :
                DOXY_DICT[thing][f].val[e].key =
                    OrdinarySignature(DOXY_DICT[thing][f].val[e].val)

-----------------------------------------------------------------------------
(* C25 *)

\* C25: a call of is_abstract_class for a scope that get_xml has loaded and
\* that its schema flags abstract returns true, whatever was called before
AbstractAfterLoad ==
    \A c \in 1..Len(called) :
        (/\ called[c].call = "is_abstract_class"
         /\ called[c].thing \in DOMAIN DOXY_DICT
         /\ SchemaOf(called[c].thing).abstract = "yes")
            => called[c].ret = TRUE

-----------------------------------------------------------------------------
(* C26 *)

\* C26: is_namespace(thing) returns true exactly when the file found for
\* thing is the namespace candidate: false for a class or struct file,
\* whatever the name of thing, and false when there is no file
NamespaceIffNamespaceFile ==
    \A c \in 1..Len(called) :
        called[c].call = "is_namespace"
            => called[c].ret = (/\ HasSchema(called[c].thing)
                                /\ IsNamespaceScope(called[c].thing))

-----------------------------------------------------------------------------
(* C27 *)

\* the calls get_xml(thing, fn, params_t) on a thing that has a file
OverloadCalls ==
    {c \in 1..Len(called) :
        /\ called[c].call = "get_xml"
        /\ "fn" \in DOMAIN called[c]
        /\ called[c].raised # "FileNotFoundError"}

\* the members of the schema of thing that the schema index holds for fn
RecordedFor(thing, fn) ==
    {j \in Declared(SchemaOf(thing), fn) : Recorded(SchemaOf(thing), j) = j}

\* C27 as stated: get_xml(thing, fn, params_t) returns a member of that
\* name recorded under exactly params_t, and raises KeyError when there is
\* none
ExactOverloadAsStated ==
    \A c \in OverloadCalls :
        LET exact == {j \in RecordedFor(called[c].thing, called[c].fn) :
                         Signature(SchemaOf(called[c].thing).memberdef[j])
                             = called[c].params_t}
        IN  IF exact = {} THEN called[c].raised = "KeyError"
            ELSE /\ called[c].raised = "no"
                 /\ \E j \in exact :
                        called[c].ret = SchemaOf(called[c].thing).memberdef[j]

\* C27 amended: get_xml(thing, fn, params_t) returns the member of that name
\* recorded under exactly params_t, except that for the empty params_t and a
\* name with exactly one recorded overload it returns that overload,
\* whatever its signature; it raises KeyError when neither applies
ExactOrOnlyOverload ==
    \A c \in OverloadCalls :
        LET doc == SchemaOf(called[c].thing)
            all == RecordedFor(called[c].thing, called[c].fn)
            exact == {j \in all : Signature(doc.memberdef[j])
                                      = called[c].params_t}
            found == IF called[c].params_t = <<>> /\ Cardinality(all) = 1
                     THEN all ELSE exact
        IN  IF found = {} THEN called[c].raised = "KeyError"
            ELSE /\ called[c].raised = "no"
                 /\ \E j \in found : called[c].ret = doc.memberdef[j]

\* bar(int), the only overload of bar, was returned for the empty params_t
ExactOrOnlyOverloadWitness ==
    /\ called # <<>>
    /\ called[1].call = "get_xml"
    /\ called[1].thing = T_Foo
    /\ "ret" \in DOMAIN called[1]
    /\ called[1].params_t = <<>>
    /\ called[1].ret = M_bar_int


-----------------------------------------------------------------------------
(* C28 *)

\* the statements of text that bind a lambda
Adapters(text) ==
    {k \in 1..Len(text) :
        /\ text[k].stmt \in {"def", "def_static"}
        /\ text[k].func.form = "lambda"}

\* the parameter list of the lambda declares self
DeclaresSelf(func) ==
    \/ Contains(func.sig, <<"&"," ","s","e","l","f",","," ">>)
    \/ EndsWith(func.sig, <<"&"," ","s","e","l","f">>)

\* the body of the lambda calls a member through self
CallsThroughSelf(func) ==
    \/ StartsWith(func.body.first, <<"s","e","l","f",".">>)
    \/ /\ "second" \in DOMAIN func.body
       /\ StartsWith(func.body.second, <<"s","e","l","f",".">>)

\* C28 as stated: in every lambda that pybind11_fn emits, for a class, a
\* struct or a namespace, the body calls through self only if the parameter
\* list declares self
SelfOnlyIfDeclared ==
    \A i \in Generated :
        \A k \in Adapters(out[i].text) :
            CallsThroughSelf(out[i].text[k].func)
                => DeclaresSelf(out[i].text[k].func)

-----------------------------------------------------------------------------
(* C29 *)

\* C29 as stated: a def_static statement never binds a lambda that declares
\* self or calls the member through self, also when the static member is
\* overloaded
StaticWithoutSelf ==
    \A i \in Generated :
        \A k \in Adapters(out[i].text) :
            out[i].text[k].stmt = "def_static" =>
                /\ ~DeclaresSelf(out[i].text[k].func)
                /\ ~CallsThroughSelf(out[i].text[k].func)


-----------------------------------------------------------------------------
(* C30 *)

\* every scope name with each of the file names doxygen_filename looks for
LookedFor ==
    {<<thing, Candidate(Probe[i], thing)>> :
        thing \in ScopeNames, i \in 1..Len(Probe)}

\* the scope names for which doxygen_filename looks for fname
ResolvingTo(fname) == {c[1] : c \in {d \in LookedFor : d[2] = fname}}

\* C30: the file that doxygen_filename returns for a scope name is a file
\* it looks for on behalf of that scope name only: no other scope name
\* built from letters, digits, underscores and :: has the same mangled stem
MangleInjective ==
    \A c \in 1..Len(called) :
        called[c].call = "doxygen_filename" =>
            /\ called[c].ret \in DOMAIN files
            /\ ResolvingTo(called[c].ret) = {called[c].thing}

\* the struct file of A::_ was found, under a stem made by all three
\* rewritings
MangleInjectiveWitness ==
    /\ called # <<>>
    /\ called[1].call = "doxygen_filename"
    /\ called[1].thing = <<"A",":",":","_">>
    /\ called[1].ret = <<"d","o","c","s","/","x","m","l","/","s","t","r","u","c","t","_","a","_","1","_","1","_","_",".","x","m","l">>

====
